---- MODULE Spec2Model ----
(***************************************************************************)
(* Starter-pack card layout: the Blender layout script                     *)
(* (PrintMaker/blender2.py), its older variant (starter_pack_layout.py)    *)
(* and the job orchestrator (PrintMaker/starter_pack_layout.py).           *)
(*                                                                         *)
(* Lengths are exact rationals in millimetres, [n |-> numerator,           *)
(* d |-> denominator] in lowest terms with d > 0, so the model states the  *)
(* real-number meaning of the float arithmetic of the scripts.             *)
(***************************************************************************)
EXTENDS Integers, Sequences, FiniteSets, TLC

\* ------------------------------------------------------------------------
\* Exact rational arithmetic
\* ------------------------------------------------------------------------
Abs(i) == IF i < 0 THEN -i ELSE i

RECURSIVE GCD(_, _)
GCD(a, b) == IF b = 0 THEN a ELSE GCD(b, a % b)

\* n/d in lowest terms, the sign carried by the numerator (d # 0)
R(n, d) ==
    LET g == GCD(Abs(n), Abs(d))
        s == IF d < 0 THEN -1 ELSE 1
    IN  [n |-> s * (n \div g), d |-> s * (d \div g)]

RInt(k) == [n |-> k, d |-> 1]
Zero == RInt(0)
One == RInt(1)
Two == RInt(2)

RNeg(a) == [n |-> -a.n, d |-> a.d]

RAdd(a, b) ==
    LET g == GCD(a.d, b.d)
    IN  R(a.n * (b.d \div g) + b.n * (a.d \div g), a.d * (b.d \div g))

RSub(a, b) == RAdd(a, RNeg(b))

RMul(a, b) ==
    LET g1 == GCD(Abs(a.n), b.d)
        g2 == GCD(Abs(b.n), a.d)
    IN  IF a.n = 0 \/ b.n = 0 THEN Zero
        ELSE [n |-> (a.n \div g1) * (b.n \div g2), d |-> (a.d \div g2) * (b.d \div g1)]

\* a / b for b # 0
RDiv(a, b) == RMul(a, IF b.n < 0 THEN [n |-> -b.d, d |-> -b.n] ELSE [n |-> b.d, d |-> b.n])

RLt(a, b) ==
    LET g == GCD(a.d, b.d)
    IN  a.n * (b.d \div g) < b.n * (a.d \div g)

RLe(a, b) == ~RLt(b, a)
RMin(a, b) == IF RLt(b, a) THEN b ELSE a
RMax(a, b) == IF RLt(a, b) THEN b ELSE a
RHalf(a) == RMul(a, R(1, 2))

\* Python's min over a non-empty list: the first of the smallest
RECURSIVE RMinSeq(_)
RMinSeq(s) == IF Len(s) = 1 THEN s[1] ELSE RMin(s[1], RMinSeq(Tail(s)))

\* ------------------------------------------------------------------------
\* Vectors and objects
\* ------------------------------------------------------------------------
Vec(x, y, z) == [x |-> x, y |-> y, z |-> z]
VZero == Vec(Zero, Zero, Zero)
VOne == Vec(One, One, One)
VAdd(a, b) == Vec(RAdd(a.x, b.x), RAdd(a.y, b.y), RAdd(a.z, b.z))
VSub(a, b) == Vec(RSub(a.x, b.x), RSub(a.y, b.y), RSub(a.z, b.z))
VMul(a, b) == Vec(RMul(a.x, b.x), RMul(a.y, b.y), RMul(a.z, b.z))
VScale(a, s) == Vec(RMul(a.x, s), RMul(a.y, s), RMul(a.z, s))
VMid(a, b) == VScale(VAdd(a, b), R(1, 2))

\* Python's None, and "no depth given"
None == [n |-> 0, d |-> 0]

\* A scene object: location of its origin, its scale, and its bound_box
\* corners lo..hi relative to the origin, in world orientation at scale 1.
\* src names the file it was imported from (0: the card or a text).
MkObj(src, loc, lo, hi) == [src |-> src, loc |-> loc, scale |-> VOne, lo |-> lo, hi |-> hi]

world_aabb(o) ==
    [mn |-> VAdd(o.loc, VMul(o.scale, o.lo)), mx |-> VAdd(o.loc, VMul(o.scale, o.hi))]

\* the extents and the centre of a box [mn, mx]
BoxDims(box) == VSub(box.mx, box.mn)
BoxCenter(box) == VMid(box.mn, box.mx)

world_dims(o) == BoxDims(world_aabb(o))

\* ------------------------------------------------------------------------
\* uniform_fit (blender2.py)
\* ------------------------------------------------------------------------
EpsDen == 1000000000
TinyDen == 1000000
Eps == [n |-> 1, d |-> EpsDen]
Tiny == [n |-> 1, d |-> TinyDen]

\* a < 1e-9, without the product a.n * 10^9
BelowEps(a) == a.n <= (a.d - 1) \div EpsDen

\* max(a, eps)
MaxEps(a) == IF BelowEps(a) THEN Eps ELSE a

FitDegenerate(d, target_d) ==
    BelowEps(d.x) \/ BelowEps(d.y) \/ (target_d # None /\ BelowEps(d.z))

FitTargetW(target_w, margin) == RMax(Tiny, RSub(target_w, RMul(Two, margin)))
FitTargetH(target_h, margin) == RMax(Tiny, RSub(target_h, RMul(Two, margin)))
FitTargetD(target_d) == RMax(Tiny, target_d)

\* variant: the depth candidate is left out
FitScales_NoDepth(d, target_w, target_h, margin, target_d) ==
    << RDiv(FitTargetW(target_w, margin), MaxEps(d.x)),
       RDiv(FitTargetH(target_h, margin), MaxEps(d.y)) >>

FitScales(d, target_w, target_h, margin, target_d) ==
    LET wh == << RDiv(FitTargetW(target_w, margin), MaxEps(d.x)),
                 RDiv(FitTargetH(target_h, margin), MaxEps(d.y)) >>
    IN  IF target_d # None
        THEN Append(wh, RDiv(FitTargetD(target_d), MaxEps(d.z)))
        ELSE wh

\* variant: the largest of the candidate factors instead of the smallest
RECURSIVE RMaxSeq(_)
RMaxSeq(s) == IF Len(s) = 1 THEN s[1] ELSE RMax(s[1], RMaxSeq(Tail(s)))

FitFactor_Largest(d, target_w, target_h, margin, target_d) ==
    RMaxSeq(FitScales(d, target_w, target_h, margin, target_d))

\* variant: the factor from the targets as given, margins taken off, with
\* neither the clamps of lines 604-609 nor the test of line 613
FitFactor_Unclamped(d, target_w, target_h, margin, target_d) ==
    LET sw == RDiv(RSub(target_w, RMul(Two, margin)), d.x)
        sh == RDiv(RSub(target_h, RMul(Two, margin)), d.y)
    IN  IF target_d = None THEN RMin(sw, sh) ELSE RMin(RMin(sw, sh), RDiv(target_d, d.z))

\* the factor s of lines 612-614 (every divisor is >= 1e-9, so s is finite)
FitFactor(d, target_w, target_h, margin, target_d) ==
    LET s == RMinSeq(FitScales(d, target_w, target_h, margin, target_d))
    IN  IF RLe(s, Zero) THEN One ELSE s

\* variant: obj.scale = s: the factor replaces the scale
ScaleBy_Replace(o, s) == [o EXCEPT !.scale = Vec(s, s, s)]

\* obj.scale *= s
ScaleBy(o, s) == [o EXCEPT !.scale = VScale(o.scale, s)]

\* variant: the early return hands back nothing, as uniform_fit_wh of the
\* older script does
uniform_fit_ReturnsNothing(o, target_w, target_h, margin, target_d) ==
    LET d == world_dims(o)
    IN  IF FitDegenerate(d, target_d)
        THEN [obj |-> o, ret |-> None, s |-> None]
        ELSE LET s == FitFactor(d, target_w, target_h, margin, target_d)
                 o2 == ScaleBy(o, s)
             IN  [obj |-> o2, ret |-> world_dims(o2).z, s |-> s]

\* returns the object after the call, the returned depth, and the factor
\* applied (None when the call returned early)
uniform_fit(o, target_w, target_h, margin, target_d) ==
    LET d == world_dims(o)
    IN  IF FitDegenerate(d, target_d)
        THEN [obj |-> o, ret |-> d.z, s |-> None]
        ELSE LET s == FitFactor(d, target_w, target_h, margin, target_d)
                 o2 == ScaleBy(o, s)
             IN  [obj |-> o2, ret |-> world_dims(o2).z, s |-> s]

\* ------------------------------------------------------------------------
\* Geometry helpers (blender2.py)
\* ------------------------------------------------------------------------
world_center(o) == BoxCenter(world_aabb(o))

top_z(o) == world_aabb(o).mx.z
bottom_z(o) == world_aabb(o).mn.z

\* bpy.ops.object.transform_apply(location, rotation, scale): the transform
\* is folded into the mesh, the origin moves to the world origin
apply_xforms(o) ==
    [o EXCEPT !.lo = world_aabb(o).mn, !.hi = world_aabb(o).mx,
              !.loc = VZero, !.scale = VOne]

needs_x_roll(o) == RLt(world_dims(o).y, world_dims(o).z)

\* Rotation by -90 degrees about the axis parallel to world X through the
\* object's world centre: a point p goes to c + (px - cx, pz - cz, -(py - cy))
RotXNeg90(v) == Vec(v.x, v.z, RNeg(v.y))

roll_about_parallel_world_x(o) ==
    LET c == world_center(o)
    IN  [o EXCEPT !.loc = VAdd(c, RotXNeg90(VSub(o.loc, c))),
                  !.scale = Vec(o.scale.x, o.scale.z, o.scale.y),
                  !.lo = Vec(o.lo.x, o.lo.z, RNeg(o.hi.y)),
                  !.hi = Vec(o.hi.x, o.hi.z, RNeg(o.lo.y))]

center_xy(o) ==
    LET c == world_center(o)
    IN  [o EXCEPT !.loc.x = RSub(o.loc.x, c.x), !.loc.y = RSub(o.loc.y, c.y)]

rest_on_z0(o) == [o EXCEPT !.loc.z = RSub(o.loc.z, bottom_z(o))]

\* variant: the bottom is aligned with the bottom of the base
snap_to_base_bottom(o, base_obj, z_offset) ==
    LET target == RAdd(bottom_z(base_obj), z_offset)
        dz == RSub(target, bottom_z(o))
    IN  [o EXCEPT !.loc.z = RAdd(o.loc.z, dz)]

\* variant: the current bottom of the object is not taken off
snap_adds_target(o, base_obj, z_offset) ==
    LET target == RAdd(top_z(base_obj), z_offset)
    IN  [o EXCEPT !.loc.z = RAdd(o.loc.z, target)]

\* variant: the object is also centred over the base in X and Y
snap_and_center(o, base_obj, z_offset) ==
    LET c == center_xy(o)
        target == RAdd(top_z(base_obj), z_offset)
        dz == RSub(target, bottom_z(c))
    IN  [c EXCEPT !.loc.z = RAdd(c.loc.z, dz)]

snap_bottom_to_base_top(o, base_obj, z_offset) ==
    LET target == RAdd(top_z(base_obj), z_offset)
        dz == RSub(target, bottom_z(o))
    IN  [o EXCEPT !.loc.z = RAdd(o.loc.z, dz)]

\* The card: centred on the origin, top face at Z = 0
create_rounded_card(width, height, thickness) ==
    MkObj(0, VZero,
          Vec(RNeg(RHalf(width)), RNeg(RHalf(height)), RNeg(thickness)),
          Vec(RHalf(width), RHalf(height), Zero))

\* ------------------------------------------------------------------------
\* Card/slot planner (blender2.py main, lines 775-777 and 793-828, 859-862)
\* ------------------------------------------------------------------------
\* the Y-span handed to scale_group_y_to_height
TextSlot(card_height) ==
    LET slot_top_y == RHalf(card_height)
    IN  [slot_top_y |-> slot_top_y,
         slot_bottom_y |-> RSub(slot_top_y, RDiv(card_height, RInt(5)))]

AccSlotH(card_height) == RMul(R(2, 3), card_height)

\* variant: the card split in halves
WLeft_Half(card_width) == RHalf(card_width)

WLeft(card_width) == RMul(card_width, R(3, 5))

PlanSlots(card_width, card_height, upper_ratio) ==
    LET H_upper == RMul(card_height, upper_ratio)
        H_lower == RSub(card_height, H_upper)
        W_left == WLeft(card_width)
        W_right == RSub(card_width, W_left)
        lower_y_min == RNeg(RHalf(card_height))
        lower_y_max == RAdd(lower_y_min, H_lower)
        lower_y_center == RHalf(RAdd(lower_y_min, lower_y_max))
        upper_y_min == lower_y_max
        upper_y_max == RHalf(card_height)
        acc_slot_h == AccSlotH(card_height)
        acc_cell_h == RDiv(acc_slot_h, RInt(3))
        left_x_min == RNeg(RHalf(card_width))
        right_x_max == RHalf(card_width)
    IN  [H_upper |-> H_upper, H_lower |-> H_lower,
         W_left |-> W_left, W_right |-> W_right,
         lower_y_min |-> lower_y_min, lower_y_max |-> lower_y_max,
         lower_y_center |-> lower_y_center,
         upper_y_min |-> upper_y_min, upper_y_max |-> upper_y_max,
         upper_y_center |-> RHalf(RAdd(upper_y_min, upper_y_max)),
         fig_slot_w |-> W_left, fig_slot_h |-> H_lower,
         acc_slot_w |-> W_right, acc_slot_h |-> acc_slot_h,
         acc_y_center |-> lower_y_center,
         acc_cell_h |-> acc_cell_h,
         left_x_center |-> RAdd(left_x_min, RHalf(W_left)),
         right_x_center |-> RSub(right_x_max, RHalf(W_right))]

\* centers_y[i], i = 0, 1, 2 (top to bottom)
CellCenterY(p, i) ==
    LET start_y == RSub(RAdd(p.acc_y_center, RHalf(p.acc_slot_h)), RHalf(p.acc_cell_h))
    IN  RSub(start_y, RMul(RInt(i), p.acc_cell_h))

\* args.card_width -= args.padding_card * 2 (and the height likewise)
Padded(len, padding_card) == RSub(len, RMul(padding_card, Two))

\* ------------------------------------------------------------------------
\* Text group (blender2.py)
\* ------------------------------------------------------------------------
\* make_text: a FONT object at the origin, rotated 90 + roll_deg = 0 degrees:
\* the glyphs lie in the XY plane from (x0, y0), extruded by +-extrude in Z
make_text(x0, y0, w, h, extrude) ==
    MkObj(0, VZero,
          Vec(x0, y0, RNeg(extrude)),
          Vec(RAdd(x0, w), RAdd(y0, h), extrude))

\* The pivot of the text group: a child point p (world, when parented)
\* shows at loc + scale * (p - c0); matrix_parent_inverse is the inverse of
\* the pivot's matrix at parenting time, the translation by c0.
NoGroup == [loc |-> VZero, scale |-> One, c0 |-> VZero]

ThroughGroup(g, p) == VAdd(g.loc, VScale(VSub(p, g.c0), g.scale))

\* world_aabb of an object parented to g (g.scale > 0)
BoxThrough(g, box) == [mn |-> ThroughGroup(g, box.mn), mx |-> ThroughGroup(g, box.mx)]

child_aabb(g, o) == BoxThrough(g, world_aabb(o))

VMin(a, b) == Vec(RMin(a.x, b.x), RMin(a.y, b.y), RMin(a.z, b.z))
VMax(a, b) == Vec(RMax(a.x, b.x), RMax(a.y, b.y), RMax(a.z, b.z))

\* union_aabb([title_obj, sub_obj])
BoxUnion(p, q) == [mn |-> VMin(p.mn, q.mn), mx |-> VMax(p.mx, q.mx)]

union_aabb(g, a, b) == BoxUnion(child_aabb(g, a), child_aabb(g, b))

union_center(g, a, b) == BoxCenter(union_aabb(g, a, b))

\* variant: the origin is put at target_cy, the offset of the object's own
\* centre from its origin is not kept
shift_origin_to_y(o, target_cy) == [o EXCEPT !.loc.y = target_cy]

shift_to_center_y(o, target_cy) ==
    [o EXCEPT !.loc.y = RAdd(o.loc.y, RSub(target_cy, world_center(o).y))]

CenterX(o) == [o EXCEPT !.loc.x = RSub(o.loc.x, world_center(o).x)]

\* returns the two objects after stacking
place_sub_below_title(title_obj, sub_obj, margin_MT) ==
    LET t == CenterX(title_obj)
        u == CenterX(sub_obj)
        t_h == world_dims(t).y
        s_h == world_dims(u).y
        title_center_y == RHalf(RAdd(s_h, margin_MT))
        sub_center_y == RNeg(RHalf(RAdd(t_h, margin_MT)))
    IN  [title |-> shift_to_center_y(t, title_center_y),
         sub |-> shift_to_center_y(u, sub_center_y)]

\* variant: the children are parented without matrix_parent_inverse
group_without_parent_inverse(a, b) ==
    LET c == union_center(NoGroup, a, b)
    IN  [loc |-> c, scale |-> One, c0 |-> VZero]

group_under_empty(a, b) ==
    LET c == union_center(NoGroup, a, b)
    IN  [loc |-> c, scale |-> One, c0 |-> c]

\* matrix_world = T(c) S(s) T(c)^-1 matrix_world
ScaleGroupAbout(g, c, s) ==
    [g EXCEPT !.loc = VAdd(c, VScale(VSub(g.loc, c), s)), !.scale = RMul(g.scale, s)]

\* lines 458-463: the scaled group is centred in the slot in Y
CenterGroupInSlot(g2, a, b, slot_cy) ==
    [g2 EXCEPT !.loc.y = RAdd(g2.loc.y, RSub(slot_cy, union_center(g2, a, b).y))]

\* lines 444-463, from the union height cur_h and the height wanted
ScaleGroupToHeight(g, a, b, cur_h, desired_h, slot_cy) ==
    IF BelowEps(cur_h) THEN g
    ELSE CenterGroupInSlot(ScaleGroupAbout(g, union_center(g, a, b), RDiv(desired_h, cur_h)),
                           a, b, slot_cy)

\* variant: the slot does not cap the target height
scale_group_y_to_height_NoCap(g, a, b, target_height, slot_bottom_y, slot_top_y) ==
    ScaleGroupToHeight(g, a, b, BoxDims(union_aabb(g, a, b)).y,
                       target_height,
                       RHalf(RAdd(slot_bottom_y, slot_top_y)))

scale_group_y_to_height(g, a, b, target_height, slot_bottom_y, slot_top_y) ==
    ScaleGroupToHeight(g, a, b, BoxDims(union_aabb(g, a, b)).y,
                       RMin(target_height, RMax(Tiny, RSub(slot_top_y, slot_bottom_y))),
                       RHalf(RAdd(slot_bottom_y, slot_top_y)))

lift_group_to_card_top(g, a, b, card_obj, lift) ==
    LET card_top == world_aabb(card_obj).mx.z
        cur_bottom == union_aabb(g, a, b).mn.z
        dz == RSub(RAdd(card_top, lift), cur_bottom)
    IN  [g EXCEPT !.loc.z = RAdd(g.loc.z, dz)]

\* ------------------------------------------------------------------------
\* Layout records (blender2.py)
\* ------------------------------------------------------------------------
\* rotation_z_deg is 0 for every entity: nothing is turned about Z
pack_xy_record(name, ab) ==
    [name |-> name,
     center |-> [x |-> RHalf(RAdd(ab.mn.x, ab.mx.x)), y |-> RHalf(RAdd(ab.mn.y, ab.mx.y))],
     size |-> [w |-> RSub(ab.mx.x, ab.mn.x), h |-> RSub(ab.mx.y, ab.mn.y)],
     rotation_z_deg |-> Zero]

\* ------------------------------------------------------------------------
\* State
\* ------------------------------------------------------------------------
VARIABLES
    fitObj,     \* uniform_fit harness: the object being fitted
    fitArgs,    \* its arguments (target_w, target_h, margin, target_d)
    fitBefore,  \* the object before the latest call
    fitOut,     \* what the latest call returned
    fitCalls,   \* number of calls made
    planArgs,   \* planner harness: card_width, card_height, padding_card, upper_ratio
    planOut,    \* the slots derived from them
    planPc,     \* "start", "padded", "planned"
    pc,         \* blender2.main: position in main
    args,       \* the parsed command line (padded in place, as main does)
    card,       \* the card object
    title_obj,  \* the two text objects
    sub_obj,
    text_group, \* the pivot they are parented to (None before grouping)
    slots,      \* the planner's locals
    fig,        \* the figure object, None when the import gave none
    needs_roll, \* "unset" until the figure assigns it, then "yes" / "no"
    slot_depth, \* the depth ceiling of the accessories
    i,          \* index of the accessory loop (0-based)
    acc,        \* the accessory being processed
    acc_objs,   \* the accessories placed so far
    recs,       \* the layout records
    layout,     \* the layout file written (None: not written)
    trace,      \* history: the steps main has carried out, in order
    procPc,           \* process_3d_models: position
    models_3d,        \* its input
    organized_models, \* the result of _organize_models_by_type
    scripts,          \* the two script paths: blender_script, keychain_script
    results,          \* the two execution results: result, keychain_result
    ret,              \* what process_3d_models returned (None: not yet)
    tmpFiles,         \* temporary script files on disk
    outFiles,         \* files in the output directory
    children,         \* the child processes started, in order
    runs,             \* how each started run ended
    genPc,        \* the generated layout script: position in main
    TEST_FILES,   \* the four paths written into the script
    scene,        \* bpy.context.scene.objects, in creation order
    gen_i,        \* index of the accessory loop (0-based)
    gen_layout,   \* the layout file written (None: not written)
    snapObj,      \* snap harness: the object being snapped
    snapBase,     \* the base it is snapped to
    snapOffset,   \* z_offset
    snapBefore,   \* the object before the latest call
    snapDz,       \* how far each call moved the object along Z, in call order
    orObj,        \* orientation harness: the object being oriented
    orBefore,     \* the object before the call
    orBest,       \* index in mats of the candidate committed (0: not called)
    orOut,        \* what the call handed to its caller: value returned, exception raised
    callPc,       \* a client of BlenderProcessor: "ready", "spawn", "wait"
    callee,       \* the method it is in
    callKids,     \* the child processes started, in order: "running", "exited", "killed"
    callLog,      \* what each finished call reported, and the state of its child then
    rootPc,       \* starter_pack_layout.py main: position
    rootArgs,     \* its parsed command line: figure, accessories, acc_count
    rootFig,      \* fig (None: no figure)
    rootI,        \* index of the accessory loop (0-based)
    rootAccObjs,  \* acc_objs
    rootPlaced,   \* placed, the items of the layout file
    rootTrace,    \* history: the steps taken on each asset, in order
    grpPc,        \* text-group harness: "made", "grouped", "scaled", "lifted"
    grpIn,        \* the two text objects and the arguments of the later calls
    grpPivot,     \* the Empty the two objects are parented to (None: not grouped)
    grpBefore     \* the pivot before the last call

mainVars == << pc, args, card, title_obj, sub_obj, text_group, slots, fig,
               needs_roll, slot_depth, i, acc, acc_objs, recs, layout, trace >>
genVars == << genPc, TEST_FILES, scene, gen_i, gen_layout >>
procVars == << procPc, models_3d, organized_models, scripts, results, ret,
               tmpFiles, outFiles, children, runs >>
fitVars == << fitObj, fitArgs, fitBefore, fitOut, fitCalls >>
planVars == << planArgs, planOut, planPc >>
snapVars == << snapObj, snapBase, snapOffset, snapBefore, snapDz >>
orVars == << orObj, orBefore, orBest, orOut >>
callVars == << callPc, callee, callKids, callLog >>
rootVars == << rootPc, rootArgs, rootFig, rootI, rootAccObjs, rootPlaced, rootTrace >>
grpVars == << grpPc, grpIn, grpPivot, grpBefore >>
restVars == << snapVars, orVars, callVars, rootVars, grpVars >>
vars == << fitVars, planVars, mainVars, procVars, genVars, restVars >>

\* ------------------------------------------------------------------------
\* SpecFit: uniform_fit called on one object, then called again with the
\* same arguments
\* ------------------------------------------------------------------------
MaxDim == 2
MaxTarget == 3
MaxMargin == 1
MaxDepth == 2

Box(dx, dy, dz) == MkObj(1, VZero, VZero, Vec(RInt(dx), RInt(dy), RInt(dz)))

FitArgs(w, h, m, td) == [target_w |-> RInt(w), target_h |-> RInt(h), margin |-> RInt(m), target_d |-> td]

FitGrid ==
    { [obj |-> Box(dx, dy, dz), args |-> FitArgs(w, h, m, td)] :
        dx \in 0..MaxDim, dy \in 0..MaxDim, dz \in 0..MaxDim,
        w \in 0..MaxTarget, h \in 0..MaxTarget, m \in 0..MaxMargin,
        td \in {None} \cup { RInt(k) : k \in 0..MaxDepth } }

\* the worked example of the specification: (200, 40, 10) into 100 x 50, margin 5
FitExample == [obj |-> Box(200, 40, 10), args |-> FitArgs(100, 50, 5, None)]

\* extents next to epsilon: half of 1e-9 in X, in Z, and exactly 1e-9 in X
HalfEps == [n |-> 1, d |-> 2 * EpsDen]
FitEdge ==
    { [obj |-> MkObj(1, VZero, VZero, Vec(HalfEps, One, Two)), args |-> FitArgs(3, 3, 0, None)],
      [obj |-> MkObj(1, VZero, VZero, Vec(Two, One, HalfEps)), args |-> FitArgs(3, 3, 0, One)],
      [obj |-> MkObj(1, VZero, VZero, Vec(One, One, HalfEps)), args |-> FitArgs(2, 2, 0, None)],
      [obj |-> MkObj(1, VZero, VZero, Vec(Eps, One, Two)), args |-> FitArgs(1, 3, 1, None)] }

FitIdle ==
    /\ fitObj = None /\ fitArgs = None /\ fitBefore = None /\ fitOut = None
    /\ fitCalls = 0

PlanIdle == planArgs = None /\ planOut = None /\ planPc = "idle"

GenIdle ==
    genPc = "idle" /\ TEST_FILES = None /\ scene = << >> /\ gen_i = 0 /\ gen_layout = None

ProcIdle ==
    /\ procPc = "idle" /\ models_3d = << >> /\ organized_models = None
    /\ scripts = None /\ results = None /\ ret = None
    /\ tmpFiles = {} /\ outFiles = {} /\ children = << >> /\ runs = << >>

SnapIdle ==
    /\ snapObj = None /\ snapBase = None /\ snapOffset = None /\ snapBefore = None
    /\ snapDz = << >>

OrientIdle == orObj = None /\ orBefore = None /\ orBest = 0 /\ orOut = None

CallIdle == callPc = "idle" /\ callee = "none" /\ callKids = << >> /\ callLog = << >>

RootIdle ==
    /\ rootPc = "idle" /\ rootArgs = None /\ rootFig = None /\ rootI = 0
    /\ rootAccObjs = << >> /\ rootPlaced = << >> /\ rootTrace = << >>

GroupIdle == grpPc = "idle" /\ grpIn = None /\ grpPivot = None /\ grpBefore = None

RestIdle == SnapIdle /\ OrientIdle /\ CallIdle /\ RootIdle /\ GroupIdle

MainIdle ==
    /\ pc = "idle" /\ args = None /\ card = None /\ title_obj = None /\ sub_obj = None
    /\ text_group = None /\ slots = None /\ fig = None /\ needs_roll = "unset"
    /\ slot_depth = None /\ i = 0 /\ acc = None /\ acc_objs = << >> /\ recs = << >>
    /\ layout = None /\ trace = << >>

FitInit ==
    /\ PlanIdle /\ MainIdle /\ ProcIdle /\ GenIdle /\ RestIdle
    /\ \E c \in FitGrid \cup {FitExample} \cup FitEdge :
        /\ fitObj = c.obj
        /\ fitArgs = c.args
        /\ fitBefore = c.obj
    /\ fitOut = [obj |-> fitObj, ret |-> None, s |-> None]
    /\ fitCalls = 0

FitCall ==
    /\ fitCalls < 2
    /\ LET out == uniform_fit(fitObj, fitArgs.target_w, fitArgs.target_h,
                              fitArgs.margin, fitArgs.target_d)
       IN  /\ fitOut' = out
           /\ fitObj' = out.obj
    /\ fitBefore' = fitObj
    /\ fitCalls' = fitCalls + 1
    /\ UNCHANGED << fitArgs, planVars, mainVars, procVars, genVars, restVars >>

FitNext == FitCall

SpecFit == FitInit /\ [][FitNext]_vars

\* ------------------------------------------------------------------------
\* Spec: one run of blender2.main
\* ------------------------------------------------------------------------
MaxAccArgs == 4

\* What a path on the command line leads to: no file ("missing"), a file
\* the importer gets no object from ("empty"), or a mesh with its bound_box
\* lo..hi about its origin, the origin at loc
Missing == [kind |-> "missing"]
Empty == [kind |-> "empty"]
Mesh(loc, lo, hi) == [kind |-> "mesh", loc |-> loc, lo |-> lo, hi |-> hi]
IVec(x, y, z) == Vec(RInt(x), RInt(y), RInt(z))

FigureFiles ==
    { Missing, Empty,
      Mesh(VZero, IVec(-1, -2, 0), IVec(1, 2, 1)),      \* lying flat, centred
      Mesh(IVec(5, 0, 0), IVec(0, 0, 0), IVec(2, 1, 4)), \* standing, off its origin
      Mesh(VZero, IVec(0, 0, 0), IVec(3, 2, 0)),         \* a flat sheet
      Mesh(VZero, IVec(0, 0, 0), IVec(200, 400, 1)) }    \* large and thin

AccessoryFiles ==
    { Missing, Empty,
      Mesh(VZero, IVec(0, 0, 0), IVec(2, 1, 1)),
      Mesh(IVec(0, 3, 0), IVec(1, 1, 1), IVec(2, 2, 4)), \* standing, off its origin
      Mesh(VZero, IVec(0, 0, 0), IVec(0, 2, 3)) }        \* no X extent

AccLists == UNION { [1..n -> AccessoryFiles] : n \in 0..MaxAccArgs }

\* the card, and the extents the font engine gives the two text bodies
\* (x0, y0, width, height): the default card with a two-line title, and a
\* card with blank texts
Cases ==
    { [card_width |-> RInt(130), card_height |-> RInt(190), upper_ratio |-> R(1, 4),
       title |-> << R(1, 2), RInt(-2), RInt(30), RInt(8) >>,
       sub |-> << Zero, RInt(-1), RInt(12), RInt(5) >>, MT |-> RInt(2)],
      [card_width |-> RInt(138), card_height |-> RInt(198), upper_ratio |-> R(1, 5),
       title |-> << Zero, Zero, Zero, Zero >>,
       sub |-> << Zero, Zero, Zero, Zero >>, MT |-> Zero] }

MainInit ==
    /\ FitIdle /\ PlanIdle /\ ProcIdle /\ GenIdle /\ RestIdle
    /\ \E f \in FigureFiles, a \in AccLists, c \in Cases :
        args = [figure |-> f, acc |-> a,
                card_width |-> c.card_width, card_height |-> c.card_height,
                card_thickness |-> RInt(3), upper_ratio |-> c.upper_ratio,
                padding_card |-> RInt(4),
                margin_figure |-> RInt(4), margin_accessories |-> RInt(2),
                TH |-> RInt(20), MT |-> c.MT, text_extr |-> R(4, 5),
                text_lift |-> R(1, 5), title |-> c.title, sub |-> c.sub]
    /\ pc = "parse_args"
    /\ card = None /\ title_obj = None /\ sub_obj = None /\ text_group = None
    /\ slots = None /\ fig = None /\ needs_roll = "unset" /\ slot_depth = None
    /\ i = 0 /\ acc = None /\ acc_objs = << >> /\ recs = << >> /\ layout = None
    /\ trace = << >>

Others == << fitVars, planVars, procVars, genVars, restVars >>

\* the assets of the pipeline, and the history of the steps taken on them
Figure == << "figure", 0 >>
Accessory(k) == << "accessory", k >>
TextGroup == << "text", 0 >>
Layout == << "layout", 0 >>
Step(asset, step) == [asset |-> asset, step |-> step]
Did(steps) == trace' = trace \o steps

\* args.acc = list(args.acc[:3])
TruncateAcc(a) == SubSeq(a, 1, IF Len(a) < 3 THEN Len(a) ELSE 3)

ParseArgs ==
    /\ pc = "parse_args"
    /\ Did(<< >>)
    /\ args' = [args EXCEPT !.acc = TruncateAcc(args.acc)]
    /\ pc' = "card"
    /\ UNCHANGED << card, title_obj, sub_obj, text_group, slots, fig, needs_roll,
                    slot_depth, i, acc, acc_objs, recs, layout, Others >>

\* lines 762-764: the card is made from the dimensions given, then they are
\* padded
MakeCard ==
    /\ pc = "card"
    /\ Did(<< >>)
    /\ card' = create_rounded_card(args.card_width, args.card_height, args.card_thickness)
    /\ args' = [args EXCEPT !.card_width = Padded(args.card_width, args.padding_card),
                            !.card_height = Padded(args.card_height, args.padding_card)]
    /\ pc' = "texts"
    /\ UNCHANGED << title_obj, sub_obj, text_group, slots, fig, needs_roll,
                    slot_depth, i, acc, acc_objs, recs, layout, Others >>

\* lines 767-770
MakeTexts ==
    /\ pc = "texts"
    /\ Did(<< Step(TextGroup, "stack") >>)
    /\ LET t == args.title
           u == args.sub
           placed == place_sub_below_title(
                        make_text(t[1], t[2], t[3], t[4], args.text_extr),
                        make_text(u[1], u[2], u[3], u[4], args.text_extr),
                        args.MT)
       IN  title_obj' = placed.title /\ sub_obj' = placed.sub
    /\ pc' = "group"
    /\ UNCHANGED << args, card, text_group, slots, fig, needs_roll,
                    slot_depth, i, acc, acc_objs, recs, layout, Others >>

\* line 773
GroupTexts ==
    /\ pc = "group"
    /\ Did(<< Step(TextGroup, "group") >>)
    /\ text_group' = group_under_empty(title_obj, sub_obj)
    /\ pc' = "scale_group"
    /\ UNCHANGED << args, card, title_obj, sub_obj, slots, fig, needs_roll,
                    slot_depth, i, acc, acc_objs, recs, layout, Others >>

\* lines 775-785
ScaleGroup ==
    /\ pc = "scale_group"
    /\ Did(<< Step(TextGroup, "scale") >>)
    /\ LET t == TextSlot(args.card_height)
       IN  text_group' = scale_group_y_to_height(text_group, title_obj, sub_obj, args.TH,
                                                 t.slot_bottom_y, t.slot_top_y)
    /\ pc' = "lift_group"
    /\ UNCHANGED << args, card, title_obj, sub_obj, slots, fig, needs_roll,
                    slot_depth, i, acc, acc_objs, recs, layout, Others >>

\* lines 789-790
LiftGroup ==
    /\ pc = "lift_group"
    /\ Did(<< Step(TextGroup, "lift") >>)
    /\ text_group' = lift_group_to_card_top([text_group EXCEPT !.loc.x = Zero],
                                            title_obj, sub_obj, card, args.text_lift)
    /\ pc' = "plan"
    /\ UNCHANGED << args, card, title_obj, sub_obj, slots, fig, needs_roll,
                    slot_depth, i, acc, acc_objs, recs, layout, Others >>

\* lines 793-828
Plan ==
    /\ pc = "plan"
    /\ Did(<< >>)
    /\ slots' = PlanSlots(args.card_width, args.card_height, args.upper_ratio)
    /\ pc' = "fig_import"
    /\ UNCHANGED << args, card, title_obj, sub_obj, text_group, fig, needs_roll,
                    slot_depth, i, acc, acc_objs, recs, layout, Others >>

\* import_model: None when the import adds no object to the scene
import_model(file, src) ==
    IF file.kind = "mesh" THEN [MkObj(src, file.loc, file.lo, file.hi) EXCEPT !.src = src]
    ELSE None

\* lines 839-841. main does not test that the figure path exists. What the
\* importer does with a path that is no file depends on the importer the
\* extension selects: the glTF importer reports an error, which bpy.ops
\* raises and main does not catch; the STL importer adds no object and
\* returns. Both outcomes are kept.
FigImport ==
    /\ pc = "fig_import"
    /\ Did(<< >>)
    /\ \/ /\ args.figure.kind = "missing"
          /\ pc' = "crashed"
          /\ UNCHANGED << fig, slot_depth >>
       \/ /\ fig' = import_model(args.figure, -1)
          /\ slot_depth' = RInt(10000)
          /\ pc' = IF fig' = None THEN "acc_loop" ELSE "fig_orient"
    /\ UNCHANGED << args, card, title_obj, sub_obj, text_group, slots, needs_roll,
                    i, acc, acc_objs, recs, layout, Others >>

\* lines 842-845
FigOrient ==
    /\ pc = "fig_orient"
    /\ Did(<< Step(Figure, "orient") >>)
    /\ needs_roll' = IF needs_x_roll(fig) THEN "yes" ELSE "no"
    /\ fig' = IF needs_x_roll(fig) THEN roll_about_parallel_world_x(apply_xforms(fig))
              ELSE apply_xforms(fig)
    /\ pc' = "fig_fit"
    /\ UNCHANGED << args, card, title_obj, sub_obj, text_group, slots,
                    slot_depth, i, acc, acc_objs, recs, layout, Others >>

\* lines 848-850
FigFit ==
    /\ pc = "fig_fit"
    /\ Did(<< Step(Figure, "fit") >>)
    /\ LET out == uniform_fit(rest_on_z0(center_xy(fig)), slots.fig_slot_w, slots.fig_slot_h,
                              args.margin_figure, None)
       IN  fig' = out.obj /\ slot_depth' = out.ret
    /\ pc' = "fig_place"
    /\ UNCHANGED << args, card, title_obj, sub_obj, text_group, slots, needs_roll,
                    i, acc, acc_objs, recs, layout, Others >>

\* obj.location.x = x; obj.location.y = y
PlaceAt(o, x, y) == [o EXCEPT !.loc.x = x, !.loc.y = y]

\* lines 852-855
FigPlace ==
    /\ pc = "fig_place"
    /\ Did(<< Step(Figure, "place"), Step(Figure, "snap") >>)
    /\ fig' = snap_bottom_to_base_top(PlaceAt(fig, slots.left_x_center, slots.lower_y_center),
                                      card, Zero)
    /\ pc' = "acc_loop"
    /\ UNCHANGED << args, card, title_obj, sub_obj, text_group, slots, needs_roll,
                    slot_depth, i, acc, acc_objs, recs, layout, Others >>

\* acc_count = min(3, len(args.acc))
AccCount == IF Len(args.acc) < 3 THEN Len(args.acc) ELSE 3

\* lines 864-868: the loop head, the existence test and the import
AccImport ==
    /\ pc = "acc_loop"
    /\ Did(<< >>)
    /\ IF i >= AccCount
       THEN pc' = "records" /\ UNCHANGED << i, acc >>
       ELSE LET path == args.acc[i + 1]
                got == import_model(path, i + 1)
            IN  IF path.kind = "missing" \/ got = None
                THEN pc' = "acc_loop" /\ i' = i + 1 /\ UNCHANGED acc
                ELSE pc' = "acc_orient" /\ acc' = got /\ UNCHANGED i
    /\ UNCHANGED << args, card, title_obj, sub_obj, text_group, slots, fig, needs_roll,
                    slot_depth, acc_objs, recs, layout, Others >>

\* lines 869-871: needs_roll is the local the figure branch assigned; when
\* that branch did not run the name is unbound and main dies with NameError
AccOrient ==
    /\ pc = "acc_orient"
    /\ Did(IF needs_roll = "unset" THEN << >> ELSE << Step(Accessory(i + 1), "orient") >>)
    /\ IF needs_roll = "unset"
       THEN pc' = "crashed" /\ UNCHANGED acc
       ELSE /\ acc' = IF needs_roll = "yes" THEN roll_about_parallel_world_x(apply_xforms(acc))
                      ELSE apply_xforms(acc)
            /\ pc' = "acc_fit"
    /\ UNCHANGED << args, card, title_obj, sub_obj, text_group, slots, fig, needs_roll,
                    slot_depth, i, acc_objs, recs, layout, Others >>

\* lines 873-875
AccFit ==
    /\ pc = "acc_fit"
    /\ Did(<< Step(Accessory(i + 1), "fit") >>)
    /\ acc' = uniform_fit(rest_on_z0(center_xy(acc)), slots.acc_slot_w, slots.acc_cell_h,
                          args.margin_accessories, slot_depth).obj
    /\ pc' = "acc_place"
    /\ UNCHANGED << args, card, title_obj, sub_obj, text_group, slots, fig, needs_roll,
                    slot_depth, i, acc_objs, recs, layout, Others >>

\* lines 877-881
AccPlace ==
    /\ pc = "acc_place"
    /\ Did(<< Step(Accessory(i + 1), "place"), Step(Accessory(i + 1), "snap") >>)
    /\ LET placed == snap_bottom_to_base_top(
                        PlaceAt(acc, slots.right_x_center, CellCenterY(slots, i)), card, Zero)
       IN  acc' = placed /\ acc_objs' = Append(acc_objs, placed)
    /\ i' = i + 1
    /\ pc' = "acc_loop"
    /\ UNCHANGED << args, card, title_obj, sub_obj, text_group, slots, fig, needs_roll,
                    slot_depth, recs, layout, Others >>

AccName(k) == << "accessory", k >>

\* lines 883-914
Records ==
    /\ pc = "records"
    /\ Did(<< Step(Layout, "records") >>)
    /\ recs' = << pack_xy_record("Card", world_aabb(card)) >>
               \o (IF fig # None THEN << pack_xy_record("base_character", world_aabb(fig)) >>
                   ELSE << >>)
               \o [k \in 1..Len(acc_objs) |-> pack_xy_record(AccName(k), world_aabb(acc_objs[k]))]
               \o << pack_xy_record("TextGroup", union_aabb(text_group, title_obj, sub_obj)) >>
    /\ pc' = "write_layout"
    /\ UNCHANGED << args, card, title_obj, sub_obj, text_group, slots, fig, needs_roll,
                    slot_depth, i, acc, acc_objs, layout, Others >>

\* lines 916-936
WriteLayout ==
    /\ pc = "write_layout"
    /\ Did(<< Step(Layout, "write") >>)
    /\ layout' = [meta |-> [units |-> "mm",
                            card |-> [W |-> args.card_width, H |-> args.card_height,
                                      card_thickness |-> args.card_thickness,
                                      upper_ratio |-> args.upper_ratio,
                                      padding_card |-> args.padding_card],
                            slots |-> [figure |-> [w |-> slots.fig_slot_w, h |-> slots.fig_slot_h],
                                       accessories |-> [w |-> slots.acc_slot_w, h |-> slots.acc_slot_h],
                                       text_strip |-> [h |-> RDiv(args.card_height, RInt(5))]]],
                  items |-> recs]
    /\ pc' = "export"
    /\ UNCHANGED << args, card, title_obj, sub_obj, text_group, slots, fig, needs_roll,
                    slot_depth, i, acc, acc_objs, recs, Others >>

\* lines 938-954: the text render and the .blend are written; no transform
\* changes
\* variant: the text group is lifted once more while exporting
Export_LiftsText ==
    /\ pc = "export"
    /\ Did(<< >>)
    /\ pc' = "done"
    /\ text_group' = [text_group EXCEPT !.loc.y = RAdd(text_group.loc.y, One)]
    /\ UNCHANGED << args, card, title_obj, sub_obj, slots, fig, needs_roll,
                    slot_depth, i, acc, acc_objs, recs, layout, Others >>

Export ==
    /\ pc = "export"
    /\ Did(<< >>)
    /\ pc' = "done"
    /\ UNCHANGED << args, card, title_obj, sub_obj, text_group, slots, fig, needs_roll,
                    slot_depth, i, acc, acc_objs, recs, layout, Others >>

Next ==
    \/ ParseArgs \/ MakeCard \/ MakeTexts \/ GroupTexts \/ ScaleGroup \/ LiftGroup
    \/ Plan \/ FigImport \/ FigOrient \/ FigFit \/ FigPlace
    \/ AccImport \/ AccOrient \/ AccFit \/ AccPlace
    \/ Records \/ WriteLayout \/ Export

Spec == MainInit /\ [][Next]_vars

\* the placement pipeline (lines 838-881) is over
Placed == pc \in {"records", "write_layout", "export", "done"}

\* C3: once the placement pipeline of blender2.main is over, the bottom Z of
\* the figure and of every placed accessory equals the card's top Z, the
\* lowest point of the text group equals the card's top Z plus the text
\* lift, and the text group's union AABB is centred on X = 0.
C3_RestsOnCard ==
    Placed =>
        /\ fig # None => bottom_z(fig) = top_z(card)
        /\ \A k \in 1..Len(acc_objs) : bottom_z(acc_objs[k]) = top_z(card)
        /\ LET u == union_aabb(text_group, title_obj, sub_obj)
           IN  /\ u.mn.z = RAdd(top_z(card), args.text_lift)
               /\ RAdd(u.mn.x, u.mx.x) = Zero

\* a run that rolled the figure, placed three accessories and a two-line
\* text whose bodies are off-centre
C3_Witness ==
    /\ pc = "done" /\ fig # None /\ needs_roll = "yes" /\ Len(acc_objs) = 3
    /\ args.MT = RInt(2)
    /\ LET u == union_aabb(text_group, title_obj, sub_obj)
       IN  RSub(u.mx.y, u.mn.y) = args.TH

\* the figure path is no file, or the importer got no object from it
FigureUnusable == pc # "idle" /\ args.figure.kind \in {"missing", "empty"}

\* C6: when the figure is missing or yields no importable object, no
\* accessory is placed afterwards and no layout file is written.
C6_FigureIsFatal == FigureUnusable => (acc_objs = << >> /\ layout = None)

\* the extents of a placed object's mesh: what uniform_fit saw as world dims
\* (apply_xforms left the scale at 1, the roll keeps it)
MeshDims(o) == VSub(o.hi, o.lo)

\* C9 (as stated): every accessory placed by blender2.main has a world
\* Z-extent no larger than the Z-extent the figure's fit returned.
C9_Original ==
    (Placed /\ fig # None) =>
        \A k \in 1..Len(acc_objs) : RLe(world_dims(acc_objs[k]).z, slot_depth)

\* C9 (amended): the figure is fitted before any accessory and its returned
\* depth is the depth given to every accessory fit; an accessory whose
\* extents are all at least 1e-9 ends with a world Z-extent no larger than
\* max(1e-6, that depth), an accessory with an extent below 1e-9 is placed
\* unscaled.
C9_DepthCeiling ==
    /\ (pc \in {"acc_fit", "acc_place"} \/ acc_objs # << >>) =>
            /\ fig # None
            /\ slot_depth = world_dims(fig).z
    /\ (Placed /\ fig # None) =>
        \A k \in 1..Len(acc_objs) :
            LET o == acc_objs[k]
            IN  IF FitDegenerate(MeshDims(o), slot_depth)
                THEN world_dims(o) = MeshDims(o)
                ELSE RLe(world_dims(o).z, RMax(Tiny, slot_depth))

\* a thin figure, with one accessory capped by its depth and one placed
\* unscaled that is deeper than the figure
C9_Witness ==
    /\ pc = "done" /\ fig # None
    /\ \E k \in 1..Len(acc_objs) :
          /\ ~FitDegenerate(MeshDims(acc_objs[k]), slot_depth)
          /\ world_dims(acc_objs[k]).z = slot_depth
          /\ acc_objs[k].scale # VOne
    /\ \E k \in 1..Len(acc_objs) :
          /\ FitDegenerate(MeshDims(acc_objs[k]), slot_depth)
          /\ RLt(slot_depth, world_dims(acc_objs[k]).z)

\* ------------------------------------------------------------------------
\* SpecProc: BlenderProcessor.process_3d_models (PrintMaker/starter_pack_layout.py)
\* ------------------------------------------------------------------------
MaxModels == 3

\* A model by what its file name matches: base_character_3d, accessory_<num>_3d,
\* or neither
FigureModel == [kind |-> "figure", num |-> 0]
AccessoryModel(n) == [kind |-> "accessory", num |-> n]
OtherModel == [kind |-> "other", num |-> 0]
Models == {FigureModel, AccessoryModel(1), AccessoryModel(2), OtherModel}

_extract_accessory_number(m) == IF m.kind = "accessory" THEN m.num ELSE 999

\* list.sort(key = _extract_accessory_number): stable
RECURSIVE InsertByNumber(_, _)
InsertByNumber(sorted, m) ==
    IF sorted = << >> THEN << m >>
    ELSE IF _extract_accessory_number(m) < _extract_accessory_number(sorted[Len(sorted)])
         THEN Append(InsertByNumber(SubSeq(sorted, 1, Len(sorted) - 1), m), sorted[Len(sorted)])
         ELSE Append(sorted, m)

RECURSIVE SortByNumber(_)
SortByNumber(l) ==
    IF l = << >> THEN << >>
    ELSE InsertByNumber(SortByNumber(SubSeq(l, 1, Len(l) - 1)), l[Len(l)])

IsFigureModel(m) == m.kind = "figure"
IsAccessoryModel(m) == m.kind # "figure"

_organize_models_by_type(l) ==
    LET figs == SelectSeq(l, IsFigureModel)
    IN  [figure |-> IF figs = << >> THEN None ELSE figs[Len(figs)],
         accessories |-> SortByNumber(SelectSeq(l, IsAccessoryModel))]

Stages == {"regular", "keychain"}

\* a dict is false only when it is empty; None is false
Truthy(d) == d # None /\ DOMAIN d # {}

\* dict.get('output_files', [])
GetOutputFiles(d) == IF "output_files" \in DOMAIN d THEN d.output_files ELSE << >>

\* _check_output_files: the files of the output directory whose extension
\* is expected, sorted by (file_type, extension)
ListedOrder == << "keychain", "regular" >>
_check_output_files(files) ==
    LET Has(f) == f \in files
    IN  SelectSeq(ListedOrder, Has)

Failure(msg) == [success |-> FALSE, error |-> msg]

ProcInit ==
    /\ FitIdle /\ PlanIdle /\ MainIdle /\ GenIdle /\ RestIdle
    /\ models_3d \in UNION { [1..n -> Models] : n \in 0..MaxModels }
    /\ procPc = "organize"
    /\ organized_models = None
    /\ scripts = [regular |-> None, keychain |-> None]
    /\ results = [regular |-> None, keychain |-> None]
    /\ ret = None /\ tmpFiles = {} /\ outFiles = {} /\ children = << >> /\ runs = << >>

NotProc == << fitVars, planVars, mainVars, genVars, restVars >>

\* lines 44-48
Organize ==
    /\ procPc = "organize"
    /\ organized_models' = _organize_models_by_type(models_3d)
    /\ procPc' = "create_regular"
    /\ UNCHANGED << models_3d, scripts, results, ret, tmpFiles, outFiles, children, runs, NotProc >>

\* the except clause of process_3d_models (lines 89-95)
Raise(msg) ==
    /\ ret' = [success |-> FALSE, error |-> msg]
    /\ procPc' = "returned"

\* _create_blender_script / _create_keychain_blender_script, and the test
\* of its result (lines 52-54, 66-68): mkstemp makes the file, then the
\* content is generated and written; any exception gives None.
\* Both outcomes of the try block are kept. With the templates as they
\* stand, formatting the regular template raises ValueError and formatting
\* the keychain template raises NameError for every input, so the first
\* outcome is the one a run of this code takes today.
CreateScript(st) ==
    /\ procPc = "create_" \o st
    /\ tmpFiles' = tmpFiles \cup {st}
    /\ \/ /\ scripts' = scripts
          /\ Raise("Failed to create " \o st \o " Blender script")
       \/ /\ scripts' = [scripts EXCEPT ![st] = st]
          /\ procPc' = "exec_" \o st
          /\ UNCHANGED ret
    /\ UNCHANGED << models_3d, organized_models, results, outFiles, children, runs, NotProc >>

\* _execute_blender_script, lines 1688-1704: the child is started; an
\* exception here is caught at line 1746
StartBlender(st) ==
    /\ procPc = "exec_" \o st
    /\ \/ /\ children' = Append(children, "running")
          /\ procPc' = "wait_" \o st
          /\ UNCHANGED results
       \/ /\ results' = [results EXCEPT ![st] = Failure("spawn")]
          /\ procPc' = "check_" \o st
          /\ UNCHANGED children
    /\ UNCHANGED << models_3d, organized_models, scripts, ret, tmpFiles, outFiles, runs, NotProc >>

\* what the script left in the output directory before it ended
Wrote(st) == \E w \in BOOLEAN : outFiles' = IF w THEN outFiles \cup {st} ELSE outFiles

\* lines 1706-1744: the child ends within the timeout
BlenderExits(st) ==
    /\ procPc = "wait_" \o st
    /\ Wrote(st)
    /\ children' = [children EXCEPT ![Len(children)] = "exited"]
    /\ \E code \in {0, 1} :
        /\ runs' = Append(runs, [stage |-> st, outcome |-> IF code = 0 THEN "ok" ELSE "nonzero"])
        /\ results' = [results EXCEPT ![st] =
                         IF code = 0
                         THEN [success |-> TRUE, output_files |-> _check_output_files(outFiles')]
                         ELSE Failure("Blender failed with code")]
    /\ procPc' = "check_" \o st
    /\ UNCHANGED << models_3d, organized_models, scripts, ret, tmpFiles, NotProc >>

\* lines 1711-1714 and 1746-1751: the timeout expires; the child is killed
\* and waited for
BlenderTimesOut(st) ==
    /\ procPc = "wait_" \o st
    /\ Wrote(st)
    /\ children' = [children EXCEPT ![Len(children)] = "killed"]
    /\ runs' = Append(runs, [stage |-> st, outcome |-> "timeout"])
    /\ results' = [results EXCEPT ![st] = Failure("Blender execution timed out")]
    /\ procPc' = "check_" \o st
    /\ UNCHANGED << models_3d, organized_models, scripts, ret, tmpFiles, NotProc >>

\* lines 57-62 and 71-76: the test of the result, and the removal of the
\* script
CheckResult(st) ==
    /\ procPc = "check_" \o st
    /\ IF ~Truthy(results[st])
       THEN Raise(st \o " Blender script execution failed") /\ UNCHANGED tmpFiles
       ELSE /\ tmpFiles' = tmpFiles \ {scripts[st]}
            /\ procPc' = IF st = "regular" THEN "create_keychain" ELSE "combine"
            /\ UNCHANGED ret
    /\ UNCHANGED << models_3d, organized_models, scripts, results, outFiles, children, runs, NotProc >>

\* lines 78-87
Combine ==
    /\ procPc = "combine"
    /\ ret' = [success |-> TRUE,
               output_files |-> GetOutputFiles(results.regular) \o GetOutputFiles(results.keychain),
               regular_result |-> results.regular,
               keychain_result |-> results.keychain]
    /\ procPc' = "returned"
    /\ UNCHANGED << models_3d, organized_models, scripts, results, tmpFiles, outFiles,
                    children, runs, NotProc >>

ProcNext ==
    \/ Organize
    \/ CreateScript("regular") \/ StartBlender("regular")
    \/ BlenderExits("regular") \/ BlenderTimesOut("regular") \/ CheckResult("regular")
    \/ CreateScript("keychain") \/ StartBlender("keychain")
    \/ BlenderExits("keychain") \/ BlenderTimesOut("keychain") \/ CheckResult("keychain")
    \/ Combine

SpecProc == ProcInit /\ [][ProcNext]_vars

RunFailed(st) ==
    \E k \in 1..Len(runs) : runs[k].stage = st /\ runs[k].outcome \in {"timeout", "nonzero"}

KeychainStageEntered ==
    procPc \in {"create_keychain", "exec_keychain", "wait_keychain", "check_keychain", "combine"}
    \/ "keychain" \in tmpFiles
    \/ \E k \in 1..Len(runs) : runs[k].stage = "keychain"

C29_ScriptsRemoved ==
    procPc = "returned" => tmpFiles = {}

\* C30: _organize_models_by_type loses no model: the number of accessories
\* plus one if a figure is set equals the number of input models, every
\* base_character_3d model being kept as the figure and every other model
\* as an accessory.
C30_NoModelLost ==
    organized_models # None =>
        /\ Len(organized_models.accessories)
             + (IF organized_models.figure # None THEN 1 ELSE 0) = Len(models_3d)
        /\ Len(organized_models.accessories) = Len(SelectSeq(models_3d, IsAccessoryModel))

\* ------------------------------------------------------------------------
\* SpecGen: main of the layout script that _generate_blender_script_content
\* holds as a template (PrintMaker/starter_pack_layout.py, lines 236-990)
\* ------------------------------------------------------------------------
BASE_WIDTH == RInt(130)
BASE_HEIGHT == RInt(190)
BASE_THICKNESS == RInt(5)
TEXT_HEIGHT == RInt(40)
USABLE_HEIGHT == RInt(140)
USABLE_Y_START == RSub(RSub(RHalf(BASE_HEIGHT), TEXT_HEIGHT), RHalf(USABLE_HEIGHT))
FIGURE_WIDTH == RInt(70)
FIGURE_HEIGHT == RInt(140)
FIGURE_X == RAdd(RNeg(RHalf(BASE_WIDTH)), RHalf(FIGURE_WIDTH))
FIGURE_Y == USABLE_Y_START
GAP == RInt(10)
ACCESSORY_SIZE == RInt(30)
ACCESSORY_X == RAdd(RAdd(RAdd(FIGURE_X, RHalf(FIGURE_WIDTH)), GAP), RHalf(ACCESSORY_SIZE))
ACCESSORY_SPACING == R(5333, 100)
FIGURE_SCALE_MULTIPLIER == One
ACCESSORY_SCALE_MULTIPLIER == R(6, 5)

\* a path of TEST_FILES: None (fewer than three accessories, or no figure),
\* or a path to what FigureFiles / AccessoryFiles describe
NoPath == [kind |-> "none"]
GenFiles == { NoPath, Missing, Empty, Mesh(IVec(1, 0, 0), IVec(0, 0, 0), IVec(2, 1, 4)) }

\* a scene object: MkObj with a name and a type; stem is the name given at
\* import, before any suffix
SceneObj(stem, name, type, o) ==
    [stem |-> stem, name |-> name, type |-> type,
     src |-> o.src, loc |-> o.loc, scale |-> o.scale, lo |-> o.lo, hi |-> o.hi]

\* bpy.ops.mesh.primitive_cube_add(): a cube of edge 2 at the origin
Cube == MkObj(0, VZero, IVec(-1, -1, -1), IVec(1, 1, 1))

\* lines 653-661, 694-700, 702-710
Placeholder(stem) ==
    SceneObj(stem, stem \o "_PLACEHOLDER", "MESH", [Cube EXCEPT !.scale = IVec(5, 5, 5)])

\* import_model of the script, lines 649-710: never None
gen_import_model(file, stem, src) ==
    IF file.kind = "mesh"
    THEN SceneObj(stem, stem, "MESH", [MkObj(src, file.loc, file.lo, file.hi) EXCEPT !.src = src])
    ELSE Placeholder(stem)

RAbs(a) == IF RLt(a, Zero) THEN RNeg(a) ELSE a

\* bpy.ops.transform.rotate in edit mode, about the centre of the mesh
RotMeshX90(o) ==
    LET c == VMid(o.lo, o.hi)
    IN  [o EXCEPT !.lo = Vec(o.lo.x, RSub(c.y, RSub(o.hi.z, c.z)), RAdd(c.z, RSub(o.lo.y, c.y))),
                  !.hi = Vec(o.hi.x, RSub(c.y, RSub(o.lo.z, c.z)), RAdd(c.z, RSub(o.hi.y, c.y)))]

RotMeshY90(o) ==
    LET c == VMid(o.lo, o.hi)
    IN  [o EXCEPT !.lo = Vec(RAdd(c.x, RSub(o.lo.z, c.z)), o.lo.y, RSub(c.z, RSub(o.hi.x, c.x))),
                  !.hi = Vec(RAdd(c.x, RSub(o.hi.z, c.z)), o.hi.y, RSub(c.z, RSub(o.lo.x, c.x)))]

\* lines 618-640: the second turn, taken when the Z-extent is still within
\* 50 of 1994.9
SecondTurn(turned) ==
    IF RLt(RAbs(RSub(world_dims(turned).z, R(19949, 10))), RInt(50))
    THEN RotMeshY90(turned)
    ELSE turned

\* apply_manual_rotation(obj, "lay_flat_x"), lines 559-647
apply_manual_rotation(o) ==
    SecondTurn(RotMeshX90(apply_xforms([o EXCEPT !.loc = VZero])))

\* lines 712-729
calculate_scale_for_area(o, target_width, target_height) ==
    LET dims == world_dims(o)
        scale_x == IF RLt(Zero, dims.x) THEN RDiv(target_width, dims.x) ELSE One
        scale_y == IF RLt(Zero, dims.y) THEN RDiv(target_height, dims.y) ELSE One
    IN  RMin(scale_x, scale_y)

\* lines 731-816 (the material does not enter the layout)
SetScale(turned, final_scale) ==
    [turned EXCEPT !.scale = Vec(final_scale, final_scale, final_scale)]

SetLocation(scaled, target_x, target_y) ==
    [scaled EXCEPT !.loc = Vec(target_x, target_y,
                               RAdd(BASE_THICKNESS, RHalf(world_dims(scaled).z)))]

ScaleForArea(turned, target_size_x, target_size_y, scale_multiplier) ==
    SetScale(turned, RMul(calculate_scale_for_area(turned, target_size_x, target_size_y),
                          scale_multiplier))

debug_position_object(o, target_x, target_y, target_size_x, target_size_y, scale_multiplier) ==
    SetLocation(ScaleForArea(apply_manual_rotation(apply_xforms(o)),
                             target_size_x, target_size_y, scale_multiplier),
                target_x, target_y)

\* lines 422-452: the base, and lines 454-534: the two titles, which stay
\* FONT objects
create_beveled_base ==
    SceneObj("Base", "Base", "MESH",
             [Cube EXCEPT !.lo = Vec(RNeg(RHalf(BASE_WIDTH)), RNeg(RHalf(BASE_HEIGHT)),
                                     RNeg(RHalf(BASE_THICKNESS))),
                          !.hi = Vec(RHalf(BASE_WIDTH), RHalf(BASE_HEIGHT), RHalf(BASE_THICKNESS)),
                          !.loc = Vec(Zero, Zero, RHalf(BASE_THICKNESS))])

TitleObj(name) == SceneObj(name, name, "FONT", MkObj(0, VZero, VZero, VZero))

GenInit ==
    /\ FitIdle /\ PlanIdle /\ MainIdle /\ ProcIdle /\ RestIdle
    /\ TEST_FILES \in [figure : GenFiles, acc : [1..3 -> GenFiles]]
    /\ genPc = "setup" /\ scene = << >> /\ gen_i = 0 /\ gen_layout = None

NotGen == << fitVars, planVars, mainVars, procVars, restVars >>

\* lines 904-911
GenSetup ==
    /\ genPc = "setup"
    /\ scene' = << create_beveled_base, TitleObj("MainTitle"), TitleObj("Tagline") >>
    /\ genPc' = "figure"
    /\ UNCHANGED << TEST_FILES, gen_i, gen_layout, NotGen >>

\* lines 913-924
GenFigure ==
    /\ genPc = "figure"
    /\ LET figure == gen_import_model(TEST_FILES.figure, "Figure", -1)
       IN  scene' = Append(scene, debug_position_object(figure, FIGURE_X, FIGURE_Y,
                                      FIGURE_WIDTH, FIGURE_HEIGHT, FIGURE_SCALE_MULTIPLIER))
    /\ genPc' = "accessories"
    /\ UNCHANGED << TEST_FILES, gen_i, gen_layout, NotGen >>

\* lines 931-943: one pass of the loop over acc1, acc2, acc3
GenAccessory ==
    /\ genPc = "accessories"
    /\ IF gen_i < 3
       THEN LET a == gen_import_model(TEST_FILES.acc[gen_i + 1],
                                      "Accessory_" \o ToString(gen_i + 1), gen_i + 1)
                acc_y == RSub(RSub(RAdd(USABLE_Y_START, RHalf(USABLE_HEIGHT)),
                                   RHalf(ACCESSORY_SIZE)),
                              RMul(RInt(gen_i), ACCESSORY_SPACING))
            IN  /\ scene' = Append(scene, debug_position_object(a, ACCESSORY_X, acc_y,
                                       ACCESSORY_SIZE, ACCESSORY_SIZE, ACCESSORY_SCALE_MULTIPLIER))
                /\ gen_i' = gen_i + 1
                /\ UNCHANGED genPc
       ELSE genPc' = "dump" /\ UNCHANGED << scene, gen_i >>
    /\ UNCHANGED << TEST_FILES, gen_layout, NotGen >>

\* obj.name.lower().startswith(...)
RoleOf(o) ==
    IF o.stem = "Figure" THEN "figure"
    ELSE IF o.stem \in {"Accessory_1", "Accessory_2", "Accessory_3"} THEN "accessory"
    ELSE "other"

IsMesh(o) == o.type = "MESH"

LayoutItem(o) ==
    [name |-> o.name, role |-> RoleOf(o), location_mm |-> o.loc, scale |-> o.scale,
     dimensions_mm |-> world_dims(o), aabb_world_mm |-> world_aabb(o)]

\* dump_layout_json, lines 250-284
dump_layout_json(objs) ==
    LET meshes == SelectSeq(objs, IsMesh)
    IN  [units |-> "mm", items |-> [k \in 1..Len(meshes) |-> LayoutItem(meshes[k])]]

\* line 947
GenDump ==
    /\ genPc = "dump"
    /\ gen_layout' = dump_layout_json(scene)
    /\ genPc' = "export"
    /\ UNCHANGED << TEST_FILES, scene, gen_i, NotGen >>

\* lines 949-950: export_files
GenExport ==
    /\ genPc = "export"
    /\ genPc' = "done"
    /\ UNCHANGED << TEST_FILES, scene, gen_i, gen_layout, NotGen >>

GenNext == GenSetup \/ GenFigure \/ GenAccessory \/ GenDump \/ GenExport

SpecGen == GenInit /\ [][GenNext]_vars

\* the items of the layout written for the accessory of slot k
GenItemsOf(k) ==
    { n \in 1..Len(gen_layout.items) :
        /\ gen_layout.items[n].role = "accessory"
        /\ gen_layout.items[n].name \in { "Accessory_" \o ToString(k),
                                          "Accessory_" \o ToString(k) \o "_PLACEHOLDER" } }

FitScaled == fitCalls >= 1 /\ fitOut.s # None

\* what the claim reads as the depth candidate: target_depth itself
ClaimedFactor(d, a, depth) ==
    LET tw == RMax(Tiny, RSub(a.target_w, RMul(Two, a.margin)))
        th == RMax(Tiny, RSub(a.target_h, RMul(Two, a.margin)))
        sw == RDiv(tw, d.x)
        sh == RDiv(th, d.y)
    IN  IF a.target_d = None THEN RMin(sw, sh)
        ELSE RMin(RMin(sw, sh), RDiv(depth, d.z))

FitPost(depth) ==
    LET d == world_dims(fitBefore)
        e == world_dims(fitObj)
        a == fitArgs
        tw == RMax(Tiny, RSub(a.target_w, RMul(Two, a.margin)))
        th == RMax(Tiny, RSub(a.target_h, RMul(Two, a.margin)))
        s == ClaimedFactor(d, a, depth)
    IN  /\ fitOut.s = s
        /\ fitObj.scale = Vec(RMul(fitBefore.scale.x, s), RMul(fitBefore.scale.y, s),
                              RMul(fitBefore.scale.z, s))
        /\ RLe(e.x, tw) /\ RLe(e.y, th)
        /\ a.target_d # None => RLe(e.z, depth)
        /\ \/ e.x = tw
           \/ e.y = th
           \/ a.target_d # None /\ e.z = depth
        /\ fitOut.ret = e.z

C10_RefitIsNoOp ==
    /\ (fitCalls = 1 /\ fitBefore = FitExample.obj /\ fitArgs = FitExample.args)
          => fitOut.s = R(45, 100)
    /\ fitCalls = 2 =>
          /\ fitOut.s \in {One, None}
          /\ fitObj.scale = fitBefore.scale
          /\ world_dims(fitObj) = world_dims(fitBefore)

C10_Witness ==
    /\ fitCalls = 2
    /\ fitArgs = FitExample.args
    /\ fitOut.s = One
    /\ world_dims(fitObj) = Vec(RInt(90), RInt(18), R(9, 2))

DegenerateForFit ==
    LET d == world_dims(fitBefore)
    IN  \/ BelowEps(d.x)
        \/ BelowEps(d.y)
        \/ (fitArgs.target_d # None /\ BelowEps(d.z))

\* C11: when the X- or Y-extent (or the Z-extent when a target depth is
\* given) is below epsilon, uniform_fit leaves the object as it was, scale
\* included, and returns the current Z-extent.
C11_DegenerateIsNoOp ==
    (fitCalls >= 1 /\ DegenerateForFit) =>
        /\ fitOut.s = None
        /\ fitObj = fitBefore
        /\ fitObj.scale = fitBefore.scale
        /\ fitOut.ret = world_dims(fitBefore).z

\* a Z-extent below epsilon: a no-op with a target depth, scaled without one
C11_ScalesWhenUnconstrained ==
    (fitCalls >= 1 /\ ~DegenerateForFit) => fitOut.s # None

\* an X-extent of half epsilon, not zero: the depth 2 comes back
C11_Witness ==
    /\ fitCalls = 1
    /\ world_dims(fitBefore).x = HalfEps
    /\ fitOut.s = None /\ fitOut.ret = Two /\ fitObj = fitBefore

\* C12: the factor uniform_fit applies is strictly positive (and finite: it
\* is a quotient of a clamped target by a divisor of at least 1e-9), for
\* every target and margin, so no scale component and no extent changes
\* sign or becomes 0.
C12_FactorPositive ==
    FitScaled =>
        /\ RLt(Zero, fitOut.s)
        /\ fitOut.s.d > 0
        /\ fitObj.scale = VScale(fitBefore.scale, fitOut.s)
        /\ RLt(Zero, fitObj.scale.x) /\ RLt(Zero, fitObj.scale.y) /\ RLt(Zero, fitObj.scale.z)
        /\ RLt(Zero, world_dims(fitObj).x) /\ RLt(Zero, world_dims(fitObj).y)

\* a margin larger than half the target: the target is clamped to 1e-6
C12_Witness ==
    /\ FitScaled /\ fitCalls = 1
    /\ RLt(fitArgs.target_w, RMul(Two, fitArgs.margin))
    /\ world_dims(fitBefore).x = Two
    /\ fitOut.s = [n |-> 1, d |-> 2 * TinyDen]

\* ------------------------------------------------------------------------
\* SpecPlan: the planner of blender2.main on its own: the card is padded
\* (lines 763-764), then the text slot and the slots are derived
\* ------------------------------------------------------------------------
PlanWidths == {1, 60, 130, 138}
PlanHeights == {1, 90, 190, 198}
PlanPaddings == {0, 4}
UpperRatios == { R(1, 20), R(1, 10), R(1, 5), R(1, 4), R(1, 3), R(2, 5), R(1, 2), R(3, 4) }

PlanInit ==
    /\ FitIdle /\ MainIdle /\ ProcIdle /\ GenIdle /\ RestIdle
    /\ \E w \in PlanWidths, h \in PlanHeights, p \in PlanPaddings, u \in UpperRatios :
        planArgs = [card_width |-> RInt(w), card_height |-> RInt(h),
                    padding_card |-> RInt(p), upper_ratio |-> u]
    /\ planOut = None
    /\ planPc = "start"

PlanPad ==
    /\ planPc = "start"
    /\ planArgs' = [planArgs EXCEPT
                      !.card_width = Padded(planArgs.card_width, planArgs.padding_card),
                      !.card_height = Padded(planArgs.card_height, planArgs.padding_card)]
    /\ planPc' = "padded"
    /\ UNCHANGED << planOut, fitVars, mainVars, procVars, genVars, restVars >>

PlanDerive ==
    /\ planPc = "padded"
    /\ planOut' = [text |-> TextSlot(planArgs.card_height),
                   slots |-> PlanSlots(planArgs.card_width, planArgs.card_height,
                                       planArgs.upper_ratio)]
    /\ planPc' = "planned"
    /\ UNCHANGED << planArgs, fitVars, mainVars, procVars, genVars, restVars >>

PlanNext == PlanPad \/ PlanDerive

SpecPlan == PlanInit /\ [][PlanNext]_vars

\* ------------------------------------------------------------------------
\* Rectangles in the card's XY plane
\* ------------------------------------------------------------------------
Rect(cx, cy, w, h) ==
    [x0 |-> RSub(cx, RHalf(w)), x1 |-> RAdd(cx, RHalf(w)),
     y0 |-> RSub(cy, RHalf(h)), y1 |-> RAdd(cy, RHalf(h))]

\* the interiors meet
Overlap(a, b) == RLt(a.x0, b.x1) /\ RLt(b.x0, a.x1) /\ RLt(a.y0, b.y1) /\ RLt(b.y0, a.y1)

Inside(a, b) == RLe(b.x0, a.x0) /\ RLe(a.x1, b.x1) /\ RLe(b.y0, a.y0) /\ RLe(a.y1, b.y1)

Footprint(card_width, card_height) == Rect(Zero, Zero, card_width, card_height)

FigureRect(p) == Rect(p.left_x_center, p.lower_y_center, p.fig_slot_w, p.fig_slot_h)
ColumnRect(p) == Rect(p.right_x_center, p.acc_y_center, p.acc_slot_w, p.acc_slot_h)
CellRect(p, k) == Rect(p.right_x_center, CellCenterY(p, k), p.acc_slot_w, p.acc_cell_h)
StripRect(t, card_width) ==
    [x0 |-> RNeg(RHalf(card_width)), x1 |-> RHalf(card_width),
     y0 |-> t.slot_bottom_y, y1 |-> t.slot_top_y]

PlanValidInput ==
    /\ planPc = "planned"
    /\ RLt(Zero, planArgs.card_width) /\ RLt(Zero, planArgs.card_height)
    /\ RLt(Zero, planArgs.upper_ratio) /\ RLt(planArgs.upper_ratio, One)

\* C1: for every card_width > 0, card_height > 0 and upper_ratio in (0,1)
\* the figure slot, the accessory column, its 3 cells and the text strip
\* are pairwise non-overlapping (the cells lie in the column) and each lies
\* inside the padded card footprint.
C1_SlotsDisjointAndInside ==
    PlanValidInput =>
        LET p == planOut.slots
            fp == Footprint(planArgs.card_width, planArgs.card_height)
            figr == FigureRect(p)
            col == ColumnRect(p)
            strip == StripRect(planOut.text, planArgs.card_width)
            cells == [k \in 0..2 |-> CellRect(p, k)]
        IN  /\ ~Overlap(figr, col) /\ ~Overlap(figr, strip) /\ ~Overlap(col, strip)
            /\ \A k \in 0..2 : ~Overlap(cells[k], figr) /\ ~Overlap(cells[k], strip)
            /\ \A k, l \in 0..2 : k # l => ~Overlap(cells[k], cells[l])
            /\ Inside(figr, fp) /\ Inside(col, fp) /\ Inside(strip, fp)
            /\ \A k \in 0..2 : Inside(cells[k], fp)

IsPlanExample ==
    /\ planPc = "planned"
    /\ planArgs.card_width = RInt(130) /\ planArgs.card_height = RInt(190)
    /\ planArgs.upper_ratio = R(1, 5)

\* C7: for the (padded) card 130 x 190 with upper_ratio 0.2 the planner
\* yields upper band 38, lower band 152, figure slot 78 x 152, accessory
\* column 0.4 * 130 = 52 wide and 2/3 * 190 = 380/3 (about 126.7) high, in
\* 3 cells of 380/9 (about 42.2) each.
C7_PlanExample ==
    IsPlanExample =>
        LET p == planOut.slots
        IN  /\ p.H_upper = RInt(38) /\ p.H_lower = RInt(152)
            /\ p.fig_slot_w = RInt(78) /\ p.fig_slot_h = RInt(152)
            /\ p.acc_slot_w = RMul(R(2, 5), planArgs.card_width)
            /\ p.acc_slot_w = RInt(52)
            /\ p.acc_slot_h = R(380, 3)
            /\ RLe(R(12665, 100), p.acc_slot_h) /\ RLt(p.acc_slot_h, R(12675, 100))
            /\ p.acc_cell_h = R(380, 9)
            /\ RLe(R(4215, 100), p.acc_cell_h) /\ RLt(p.acc_cell_h, R(4225, 100))
            /\ \A k \in 0..2 : LET c == CellRect(p, k) IN RSub(c.y1, c.y0) = p.acc_cell_h
            /\ CellRect(p, 0).y1 = ColumnRect(p).y1
            /\ CellRect(p, 2).y0 = ColumnRect(p).y0

C7_Witness ==
    /\ IsPlanExample
    /\ planArgs.padding_card = RInt(4)
    /\ planOut.slots.fig_slot_w = RInt(78)
    /\ planOut.slots.acc_cell_h = R(380, 9)

\* C8: for every upper_ratio in (0,1) the Y-span handed to
\* scale_group_y_to_height has height card_height * upper_ratio and is the
\* region above the lower band.
C8_TextSlotIsUpperBand ==
    PlanValidInput =>
        LET t == planOut.text
            p == planOut.slots
        IN  /\ RSub(t.slot_top_y, t.slot_bottom_y) = RMul(planArgs.card_height, planArgs.upper_ratio)
            /\ t.slot_bottom_y = p.upper_y_min
            /\ t.slot_top_y = p.upper_y_max


\* ------------------------------------------------------------------------
\* The order of the pipeline of blender2.main
\* ------------------------------------------------------------------------
IsAsset(a) == a[1] \in {"figure", "accessory"}

\* the figure first, then the accessories by index
AssetRank(a) == IF a[1] = "figure" THEN 0 ELSE a[2]

StepRank(step) ==
    CASE step = "orient" -> 1 [] step = "fit" -> 2 [] step = "place" -> 3 [] step = "snap" -> 4

AssetSteps == SelectSeq(trace, LAMBDA ev : IsAsset(ev.asset))

\* every asset goes orient, fit, place, snap without another asset in
\* between, and a later asset starts only after the snap of the one before
AssetsOneByOne ==
    LET A == AssetSteps
    IN  /\ (A # << >> => A[1].step = "orient")
        /\ \A k \in 1..(Len(A) - 1) :
            \/ /\ A[k + 1].asset = A[k].asset
               /\ StepRank(A[k + 1].step) = StepRank(A[k].step) + 1
            \/ /\ A[k].step = "snap" /\ A[k + 1].step = "orient"
               /\ AssetRank(A[k].asset) < AssetRank(A[k + 1].asset)

Position(asset, step) ==
    { k \in 1..Len(trace) : trace[k] = Step(asset, step) }

\* the records are taken once, after the four steps of the text group and
\* after every step of every asset, each asset then complete
SerializedLast ==
    \A r \in Position(Layout, "records") :
        /\ \A st \in {"stack", "group", "scale", "lift"} :
            \E k \in Position(TextGroup, st) : k < r
        /\ \A k \in 1..Len(trace) : (IsAsset(trace[k].asset) \/ trace[k].asset = TextGroup) => k < r
        /\ (AssetSteps # << >> => AssetSteps[Len(AssetSteps)].step = "snap")

\* the records as they would be taken from the scene now
CurrentRecords ==
    << pack_xy_record("Card", world_aabb(card)) >>
    \o (IF fig # None THEN << pack_xy_record("base_character", world_aabb(fig)) >> ELSE << >>)
    \o [k \in 1..Len(acc_objs) |-> pack_xy_record(AccName(k), world_aabb(acc_objs[k]))]
    \o << pack_xy_record("TextGroup", union_aabb(text_group, title_obj, sub_obj)) >>

Serialized == pc \in {"write_layout", "export", "done"}

\* C20: each asset is processed to completion, orient, fit, place, snap in
\* that order, before the next begins; the figure comes before every
\* accessory; the text group is fully composed before the records are taken;
\* the records are taken after all placements and no transform changes
\* afterwards.
C20_PipelineOrder ==
    /\ AssetsOneByOne
    /\ SerializedLast
    /\ (Serialized => (Position(Layout, "records") # {} /\ recs = CurrentRecords))
    /\ (layout # None => layout.items = CurrentRecords)

\* a finished run with the figure and three accessories
C20_Witness ==
    /\ pc = "done"
    /\ fig # None /\ Len(acc_objs) = 3
    /\ Len(AssetSteps) = 16
    /\ AssetSteps[5] = Step(Accessory(1), "orient")
    /\ AssetSteps[16] = Step(Accessory(3), "snap")

\* ------------------------------------------------------------------------
\* The layout file of blender2.main
\* ------------------------------------------------------------------------
ExpectedNames ==
    << "Card" >> \o (IF fig # None THEN << "base_character" >> ELSE << >>)
    \o [k \in 1..Len(acc_objs) |-> AccName(k)] \o << "TextGroup" >>

\* C22: the items of the layout file are one record per placed entity in
\* the order card, figure, accessories in slot order, text group, and each
\* record carries name, role, center, size and rotation_z_deg.
C22_ItemsComplete ==
    layout # None =>
        /\ Len(layout.items) = Len(ExpectedNames)
        /\ \A k \in 1..Len(layout.items) :
            /\ layout.items[k].name = ExpectedNames[k]
            /\ DOMAIN layout.items[k] = {"name", "role", "center", "size", "rotation_z_deg"}

\* ------------------------------------------------------------------------
\* Placement in the slots (blender2.main)
\* ------------------------------------------------------------------------
XYCentre(o) == [x |-> world_center(o).x, y |-> world_center(o).y]

\* the world XY box of o is centred on (cx, cy) and inside the w x h slot
\* around it, inset by m on every side
CentredInside(o, cx, cy, w, h, m) ==
    LET b == world_aabb(o)
    IN  /\ XYCentre(o) = [x |-> cx, y |-> cy]
        /\ RLe(RAdd(RSub(cx, RHalf(w)), m), b.mn.x) /\ RLe(b.mx.x, RSub(RAdd(cx, RHalf(w)), m))
        /\ RLe(RAdd(RSub(cy, RHalf(h)), m), b.mn.y) /\ RLe(b.mx.y, RSub(RAdd(cy, RHalf(h)), m))

FigurePlaced ==
    fig # None /\ pc \in {"acc_loop", "acc_orient", "acc_fit", "acc_place",
                          "records", "write_layout", "export", "done"}

\* C23: after an asset has been fitted and placed, its world XY bounding box
\* is centred on its slot centre and lies inside its slot inset by the
\* margin: the figure slot for the figure, cell i for accessory i.
C23_CentredInSlot ==
    /\ FigurePlaced =>
        CentredInside(fig, slots.left_x_center, slots.lower_y_center,
                      slots.fig_slot_w, slots.fig_slot_h, args.margin_figure)
    /\ \A k \in 1..Len(acc_objs) :
        CentredInside(acc_objs[k], slots.right_x_center, CellCenterY(slots, acc_objs[k].src - 1),
                      slots.acc_slot_w, slots.acc_cell_h, args.margin_accessories)

LiesFlat(o) == RLe(world_dims(o).z, world_dims(o).y)

\* C24: the roll is decided per asset: the figure and every accessory is
\* rolled if and only if its own Z-extent exceeds its own Y-extent, so every
\* placed asset ends with dz <= dy.
C24_RollPerAsset ==
    /\ FigurePlaced => LiesFlat(fig)
    /\ \A k \in 1..Len(acc_objs) : LiesFlat(acc_objs[k])

\* the record written for accessory_k: after the card and the figure
AccItem(k) == layout.items[1 + (IF fig # None THEN 1 ELSE 0) + k]

\* C25: in the written layout the item named accessory_k describes the
\* accessory loaded from the k-th accessory path and placed in the k-th
\* cell, also when an earlier path is missing and skipped.
C25_NameMatchesPath ==
    layout # None =>
        \A k \in 1..Len(acc_objs) :
            /\ AccItem(k).name = AccName(k)
            /\ AccItem(k) = pack_xy_record(AccName(k), world_aabb(acc_objs[k]))
            /\ acc_objs[k].src = k
            /\ acc_objs[k].loc.y = CellCenterY(slots, k - 1)

\* ------------------------------------------------------------------------
\* SpecSnap: snap_bottom_to_base_top called on one object, then called again
\* with the same base and offset
\* ------------------------------------------------------------------------
MaxSnap == 2

SnapScales == { R(1, 2), One, Two }
SnapOffsets == { Zero, R(1, 5), RNeg(One) }

SnapObjects ==
    { [MkObj(1, Vec(Zero, Zero, RInt(z)), Vec(Zero, Zero, RInt(lz)), Vec(One, One, RInt(hz)))
          EXCEPT !.scale = Vec(sc, sc, sc)] :
        z \in -1..MaxSnap, lz \in -1..0, hz \in 1..MaxSnap, sc \in SnapScales }

SnapBases ==
    { create_rounded_card(RInt(4), RInt(4), RInt(3)),
      [create_rounded_card(RInt(4), RInt(4), RInt(3)) EXCEPT !.loc.z = R(3, 2)] }

SnapInit ==
    /\ FitIdle /\ PlanIdle /\ MainIdle /\ ProcIdle /\ GenIdle /\ OrientIdle /\ CallIdle
    /\ RootIdle /\ GroupIdle
    /\ snapObj \in SnapObjects
    /\ snapBase \in SnapBases
    /\ snapOffset \in SnapOffsets
    /\ snapBefore = snapObj
    /\ snapDz = << >>

SnapCall ==
    /\ Len(snapDz) < 2
    /\ LET o2 == snap_bottom_to_base_top(snapObj, snapBase, snapOffset)
       IN  /\ snapObj' = o2
           /\ snapDz' = Append(snapDz, RSub(o2.loc.z, snapObj.loc.z))
    /\ snapBefore' = snapObj
    /\ UNCHANGED << snapBase, snapOffset, fitVars, planVars, mainVars, procVars, genVars,
                    orVars, callVars, rootVars, grpVars >>

SnapNext == SnapCall

SpecSnap == SnapInit /\ [][SnapNext]_vars

\* C13: snap_bottom_to_base_top called twice in succession with the same base
\* and offset moves the object by 0 on the second call.
C13_SnapIdempotent ==
    Len(snapDz) = 2 =>
        /\ snapDz[2] = Zero
        /\ snapObj = snapBefore

\* a second call after a first one that did move the object, offset 1/5
C13_Witness ==
    /\ Len(snapDz) = 2
    /\ snapDz[1] # Zero
    /\ snapOffset = R(1, 5)
    /\ snapObj.scale = Vec(Two, Two, Two)
    /\ bottom_z(snapObj) = RAdd(top_z(snapBase), snapOffset)

\* C26: snap_bottom_to_base_top translates the object along Z only: after the
\* call the object's bottom Z equals the base's top Z plus the offset, the
\* object's X and Y location, its scale and its mesh are as before, and the
\* base is unchanged.
C26_SnapAlongZOnly ==
    [][SnapCall =>
        /\ bottom_z(snapObj') = RAdd(top_z(snapBase), snapOffset)
        /\ snapObj' = [snapObj EXCEPT !.loc.z = snapObj'.loc.z]
        /\ world_aabb(snapObj').mn.x = world_aabb(snapObj).mn.x
        /\ world_aabb(snapObj').mx.y = world_aabb(snapObj).mx.y
        /\ snapBase' = snapBase]_vars

\* one call that lowered a half-scale object onto the raised base, offset -1
C26_Witness ==
    /\ Len(snapDz) = 1
    /\ RLt(snapDz[1], Zero)
    /\ snapOffset = RNeg(One)
    /\ snapBase.loc.z = R(3, 2)
    /\ snapObj.scale = Vec(R(1, 2), R(1, 2), R(1, 2))
    /\ snapObj.loc.x = snapBefore.loc.x /\ snapObj.loc.y = snapBefore.loc.y
    /\ snapObj.loc.z # snapBefore.loc.z
    /\ bottom_z(snapObj) = R(1, 2)


\* ------------------------------------------------------------------------
\* SpecOrient: try_orient_longest_X_second_Y (starter_pack_layout.py) called
\* on one object whose transforms were applied (matrix_world is the
\* identity, as after apply_all_transforms in main)
\* ------------------------------------------------------------------------
MaxOrient == 3

\* Matrix.Rotation(radians(+-90), 4, axis) applied to a point
Rx(a, v) == IF a = 90 THEN Vec(v.x, RNeg(v.z), v.y) ELSE Vec(v.x, v.z, RNeg(v.y))
Ry(a, v) == IF a = 90 THEN Vec(v.z, v.y, RNeg(v.x)) ELSE Vec(RNeg(v.z), v.y, v.x)
Rz(a, v) == IF a = 90 THEN Vec(RNeg(v.y), v.x, v.z) ELSE Vec(v.y, RNeg(v.x), v.z)

NumMats == 11

\* the candidate list mats, in list order; A @ B applies B first
mats(k, v) ==
    CASE k = 1 -> v
      [] k = 2 -> Rx(90, v)
      [] k = 3 -> Rx(-90, v)
      [] k = 4 -> Ry(90, v)
      [] k = 5 -> Ry(-90, v)
      [] k = 6 -> Rz(90, v)
      [] k = 7 -> Rz(-90, v)
      [] k = 8 -> Rx(90, Rz(90, v))
      [] k = 9 -> Rx(90, Rz(-90, v))
      [] k = 10 -> Ry(90, Rz(90, v))
      [] k = 11 -> Ry(90, Rz(-90, v))

\* obj.matrix_world = M @ mw_orig: the box turned about the world origin
WithMatrix(o, k) ==
    LET a == mats(k, VAdd(o.loc, VMul(o.scale, o.lo)))
        b == mats(k, VAdd(o.loc, VMul(o.scale, o.hi)))
    IN  [o EXCEPT !.loc = VZero, !.scale = VOne, !.lo = VMin(a, b), !.hi = VMax(a, b)]

\* lines 137-140
OrientScore(d) ==
    LET pen1 == IF RLt(d.x, d.y) THEN RMul(RSub(d.y, d.x), RInt(1000)) ELSE Zero
        pen2 == IF RLt(d.y, d.z) THEN RMul(RSub(d.z, d.y), RInt(1000)) ELSE Zero
    IN  RAdd(RAdd(RNeg(d.x), RMul(R(1, 10), d.z)), RAdd(pen1, pen2))

ScoreOf(o, k) == OrientScore(world_dims(WithMatrix(o, k)))

\* variant: score <= best_score, the last of equal candidates wins
Improves_OrEqual(score, best_score) == best_score = None \/ RLe(score, best_score)

\* line 141; best_score starts at 1e18, above every score of an object
\* smaller than 1e15, written None here
Improves(score, best_score) == best_score = None \/ RLt(score, best_score)

\* the loop of lines 133-143 from candidate k on
RECURSIVE OrientLoop(_, _, _, _)
OrientLoop(o, k, best, best_score) ==
    IF k > NumMats THEN best
    ELSE IF Improves(ScoreOf(o, k), best_score)
         THEN OrientLoop(o, k + 1, k, ScoreOf(o, k))
         ELSE OrientLoop(o, k + 1, best, best_score)

\* variant: line 144 left out, the object keeps the last candidate tested
Committed_Last(best, last) == last

\* line 144
Committed(best, last) == best

\* the function has no return statement and raises nothing of its own
try_orient_longest_X_second_Y(o) ==
    LET best == Committed(OrientLoop(o, 1, 0, None), NumMats)
    IN  [obj |-> WithMatrix(o, best), best |-> best, ret |-> "None", raised |-> "nothing"]

OrientBox(lx, dx, dy, dz) ==
    MkObj(1, VZero, Vec(RInt(lx), Zero, Zero), Vec(RInt(lx + dx), RInt(dy), RInt(dz)))

\* the worked example of the specification: taller than deep
OrientExample == OrientBox(0, 10, 5, 20)

OrientObjects ==
    { OrientBox(lx, dx, dy, dz) :
        lx \in -1..0, dx \in 0..MaxOrient, dy \in 0..MaxOrient, dz \in 0..MaxOrient }
    \cup { OrientExample }

OrientInit ==
    /\ FitIdle /\ PlanIdle /\ MainIdle /\ ProcIdle /\ GenIdle /\ SnapIdle /\ CallIdle
    /\ RootIdle /\ GroupIdle
    /\ orObj \in OrientObjects
    /\ orBefore = orObj
    /\ orBest = 0
    /\ orOut = None

OrientCall ==
    /\ orBest = 0
    /\ LET out == try_orient_longest_X_second_Y(orObj)
       IN  /\ orObj' = out.obj
           /\ orBest' = out.best
           /\ orOut' = [ret |-> out.ret, raised |-> out.raised]
    /\ orBefore' = orObj
    /\ UNCHANGED << fitVars, planVars, mainVars, procVars, genVars, snapVars, callVars,
                    rootVars, grpVars >>

OrientNext == OrientCall

SpecOrient == OrientInit /\ [][OrientNext]_vars

Sorted(d) == RLe(d.y, d.x) /\ RLe(d.z, d.y)

\* C14: an object whose extents already satisfy dx >= dy >= dz keeps the
\* identity; in general no candidate scores below the committed one and
\* every candidate earlier in the list scores strictly above it.
C14_IdentityAndFirstWins ==
    orBest # 0 =>
        /\ Sorted(world_dims(orBefore)) => (orBest = 1 /\ world_aabb(orObj) = world_aabb(orBefore))
        /\ \A k \in 1..NumMats : RLe(ScoreOf(orBefore, orBest), ScoreOf(orBefore, k))
        /\ \A k \in 1..(orBest - 1) : RLt(ScoreOf(orBefore, orBest), ScoreOf(orBefore, k))

\* extents (2, 2, 1): the identity and Rz(90), Rz(-90) score the same
C14_Witness ==
    /\ orBest = 1
    /\ world_dims(orBefore) = Vec(Two, Two, One)
    /\ ScoreOf(orBefore, 6) = ScoreOf(orBefore, 1)
    /\ ScoreOf(orBefore, 7) = ScoreOf(orBefore, 1)

NonDegenerate(d) == RLt(Zero, d.x) /\ RLt(Zero, d.y) /\ RLt(Zero, d.z)

\* C15: for an object with non-degenerate extents the committed rotation
\* gives extents sorted dx >= dy >= dz; (10, 5, 20) ends with dz <= dy.
C15_CommittedIsSorted ==
    (orBest # 0 /\ NonDegenerate(world_dims(orBefore))) =>
        /\ Sorted(world_dims(orObj))
        /\ orObj = WithMatrix(orBefore, orBest)
        /\ (orBefore = OrientExample => RLe(world_dims(orObj).z, world_dims(orObj).y))

\* (10, 5, 20) becomes (20, 10, 5) under Ry(90) @ Rz(90)
C15_Witness ==
    /\ orBefore = OrientExample
    /\ orBest = 10
    /\ world_dims(orObj) = Vec(RInt(20), RInt(10), RInt(5))

AllDegenerate(o) ==
    \A k \in 1..NumMats :
        LET d == world_dims(WithMatrix(o, k))
        IN  d.x = Zero \/ d.y = Zero \/ d.z = Zero

\* C16: when every candidate yields a degenerate box, the object is left at
\* the identity and a DegenerateGeometry condition reaches the caller.
C16_DegenerateSignalled ==
    (orBest # 0 /\ AllDegenerate(orBefore)) =>
        /\ orBest = 1
        /\ (orOut.ret = "DegenerateGeometry" \/ orOut.raised = "DegenerateGeometry")


\* ------------------------------------------------------------------------
\* SpecText: the text composer of blender2.main (lines 767-790) over a grid
\* of text bodies, gaps, target heights and card heights; the card is made
\* and the dimensions are padded
\* ------------------------------------------------------------------------
MaxMT == 2

TitleHeights == { Zero, RInt(3), RInt(8) }
SubHeights == { Zero, RInt(5) }
TextOrigins == { RInt(-2), Zero }
TargetHeights == { RInt(10), RInt(20) }
\* padded card heights: the slot is a fifth of them (0, 18, 38)
TextCardHeights == { Zero, RInt(90), RInt(190) }

TextInit ==
    /\ FitIdle /\ PlanIdle /\ ProcIdle /\ GenIdle /\ RestIdle
    /\ \E t \in TitleHeights, u \in SubHeights, y0 \in TextOrigins, m \in 0..MaxMT,
          th \in TargetHeights, ch \in TextCardHeights :
        /\ args = [figure |-> Missing, acc |-> << >>,
                   card_width |-> RInt(130), card_height |-> ch,
                   card_thickness |-> RInt(3), upper_ratio |-> R(1, 4),
                   padding_card |-> RInt(4),
                   margin_figure |-> RInt(4), margin_accessories |-> RInt(2),
                   TH |-> th, MT |-> RInt(m), text_extr |-> R(4, 5),
                   text_lift |-> R(1, 5),
                   title |-> << R(1, 2), y0, IF t = Zero THEN Zero ELSE RInt(30), t >>,
                   sub |-> << Zero, RInt(-1), IF u = Zero THEN Zero ELSE RInt(12), u >>]
        /\ card = create_rounded_card(RInt(138), RAdd(ch, RInt(8)), RInt(3))
    /\ pc = "texts"
    /\ title_obj = None /\ sub_obj = None /\ text_group = None
    /\ slots = None /\ fig = None /\ needs_roll = "unset" /\ slot_depth = None
    /\ i = 0 /\ acc = None /\ acc_objs = << >> /\ recs = << >> /\ layout = None
    /\ trace = << >>

TextNext == MakeTexts \/ GroupTexts \/ ScaleGroup \/ LiftGroup

SpecText == TextInit /\ [][TextNext]_vars

TextsPlaced == pc \in {"group", "scale_group", "lift_group", "plan"}

YExtent(box) == RSub(box.mx.y, box.mn.y)
YCenter(box) == RHalf(RAdd(box.mn.y, box.mx.y))

\* C17: after place_sub_below_title with title height t, subtitle height s
\* and gap m >= 0 the title lies above the subtitle with a gap of exactly m,
\* the union Y-extent is t + s + m (15 for 8, 5, 2) and the union is
\* centred on Y = 0.
C17_StackedAndCentred ==
    TextsPlaced =>
        LET t == args.title[4]
            s == args.sub[4]
            u == union_aabb(NoGroup, title_obj, sub_obj)
        IN  /\ world_dims(title_obj).y = t /\ world_dims(sub_obj).y = s
            /\ RSub(world_aabb(title_obj).mn.y, world_aabb(sub_obj).mx.y) = args.MT
            /\ RLe(world_aabb(sub_obj).mx.y, world_aabb(title_obj).mn.y)
            /\ YExtent(u) = RAdd(RAdd(t, s), args.MT)
            /\ YCenter(u) = Zero
            /\ ((t = RInt(8) /\ s = RInt(5) /\ args.MT = Two) => YExtent(u) = RInt(15))

\* heights 8 and 5, gap 2, the title body starting 2 below its origin
C17_Witness ==
    /\ pc = "group"
    /\ args.title[4] = RInt(8) /\ args.sub[4] = RInt(5) /\ args.MT = Two
    /\ args.title[2] = RInt(-2)
    /\ YExtent(union_aabb(NoGroup, title_obj, sub_obj)) = RInt(15)

GroupScaled == pc \in {"lift_group", "plan"}

\* the union before scaling: the group as group_under_empty made it
PreScaleUnion == union_aabb(group_under_empty(title_obj, sub_obj), title_obj, sub_obj)

SlotSpan == TextSlot(args.card_height)
SlotHeight == RSub(SlotSpan.slot_top_y, SlotSpan.slot_bottom_y)

\* the claim as stated: whatever the texts, the union ends with the height
\* min(target_height, slot_height), centred in and contained in the slot
C18_Original ==
    GroupScaled =>
        LET u == union_aabb(text_group, title_obj, sub_obj)
        IN  /\ YExtent(u) = RMin(args.TH, SlotHeight)
            /\ YCenter(u) = RHalf(RAdd(SlotSpan.slot_bottom_y, SlotSpan.slot_top_y))
            /\ RLe(SlotSpan.slot_bottom_y, u.mn.y) /\ RLe(u.mx.y, SlotSpan.slot_top_y)

\* C18: when the union height is at least 1e-9, scale_group_y_to_height
\* scales the group by min(target_height, max(1e-6, slot_height)) / union
\* height (1.2 for target 20, slot 18, union 15); afterwards the union
\* Y-extent is that minimum, the union is centred on the middle of the slot
\* and, for a slot of at least 1e-6, contained in its Y-span. When the union
\* height is below 1e-9 the group is left as it was.
C18_ScaledIntoSlot ==
    GroupScaled =>
        LET u == union_aabb(text_group, title_obj, sub_obj)
            cur_h == YExtent(PreScaleUnion)
            desired_h == RMin(args.TH, RMax(Tiny, SlotHeight))
        IN  IF BelowEps(cur_h)
            THEN /\ text_group.scale = One
                 /\ text_group.loc.y = group_under_empty(title_obj, sub_obj).loc.y
                 /\ YExtent(u) = cur_h
            ELSE /\ text_group.scale = RDiv(desired_h, cur_h)
                 /\ YExtent(u) = desired_h
                 /\ YCenter(u) = RHalf(RAdd(SlotSpan.slot_bottom_y, SlotSpan.slot_top_y))
                 /\ (RLe(Tiny, SlotHeight) =>
                        /\ RLe(SlotSpan.slot_bottom_y, u.mn.y)
                        /\ RLe(u.mx.y, SlotSpan.slot_top_y))
                 /\ ((args.TH = RInt(20) /\ SlotHeight = RInt(18) /\ cur_h = RInt(15))
                        => text_group.scale = R(6, 5))

\* target 20, slot 18, union 15: the factor is 6/5
C18_Witness ==
    /\ pc = "lift_group"
    /\ args.TH = RInt(20) /\ SlotHeight = RInt(18)
    /\ YExtent(PreScaleUnion) = RInt(15)
    /\ text_group.scale = R(6, 5)
    /\ YExtent(union_aabb(text_group, title_obj, sub_obj)) = RInt(18)


\* ------------------------------------------------------------------------
\* SpecCalls: a client awaiting, one after the other, the three methods of
\* BlenderProcessor that start Blender under a timeout
\* (PrintMaker/starter_pack_layout.py)
\* ------------------------------------------------------------------------
MaxCalls == 3

TimedMethods == { "_execute_blender_script", "health_check", "create_simple_test_stl" }

CallInit ==
    /\ FitIdle /\ PlanIdle /\ MainIdle /\ ProcIdle /\ GenIdle /\ SnapIdle /\ OrientIdle
    /\ RootIdle /\ GroupIdle
    /\ callPc = "ready"
    /\ callee = "none"
    /\ callKids = << >>
    /\ callLog = << >>

NotCalls == << fitVars, planVars, mainVars, procVars, genVars, snapVars, orVars, rootVars,
              grpVars >>

\* what a call reports: the 'success' of the dict of _execute_blender_script,
\* the bool of the other two
Reported(m, how, ok, kid) == [method |-> m, outcome |-> how, success |-> ok, child |-> kid]

CallMethod(m) ==
    /\ callPc = "ready"
    /\ Len(callLog) < MaxCalls
    /\ callee' = m
    /\ callPc' = "spawn"
    /\ UNCHANGED << callKids, callLog, NotCalls >>

\* asyncio.create_subprocess_exec: the child starts, or the exception is
\* caught by the method's except clause and failure is reported
SpawnChild ==
    /\ callPc = "spawn"
    /\ \/ /\ callKids' = Append(callKids, "running")
          /\ callPc' = "wait"
          /\ UNCHANGED callLog
       \/ /\ callLog' = Append(callLog, Reported(callee, "spawn", FALSE, "none"))
          /\ callPc' = "ready"
          /\ UNCHANGED callKids
    /\ UNCHANGED << callee, NotCalls >>

\* communicate() returns within the timeout; create_simple_test_stl also
\* wants the file to exist
ChildExits ==
    /\ callPc = "wait"
    /\ callKids' = [callKids EXCEPT ![Len(callKids)] = "exited"]
    /\ \E code \in {0, 1}, written \in BOOLEAN :
        callLog' = Append(callLog,
            Reported(callee, "exit", code = 0 /\ (callee = "create_simple_test_stl" => written),
                     "exited"))
    /\ callPc' = "ready"
    /\ UNCHANGED << callee, NotCalls >>

\* asyncio.wait_for raises TimeoutError after cancelling communicate().
\* _execute_blender_script catches it, kills the child and waits for it
\* (lines 1711-1714); the other two have only the outer except clause, which
\* reports the failure (lines 1828-1830, 1890-1892)
AfterTimeout(m, kid) == IF m = "_execute_blender_script" THEN "killed" ELSE kid

TimeoutExpires ==
    /\ callPc = "wait"
    /\ LET kid == AfterTimeout(callee, callKids[Len(callKids)])
       IN  /\ callKids' = [callKids EXCEPT ![Len(callKids)] = kid]
           /\ callLog' = Append(callLog, Reported(callee, "timeout", FALSE, kid))
    /\ callPc' = "ready"
    /\ UNCHANGED << callee, NotCalls >>

\* a child nobody waits for any more ends by itself
OrphanEnds ==
    /\ \E k \in 1..Len(callKids) :
        /\ callKids[k] = "running"
        /\ (callPc = "wait" => k < Len(callKids))
        /\ callKids' = [callKids EXCEPT ![k] = "exited"]
    /\ UNCHANGED << callPc, callee, callLog, NotCalls >>

CallNext ==
    \/ \E m \in TimedMethods : CallMethod(m)
    \/ SpawnChild
    \/ ChildExits
    \/ TimeoutExpires
    \/ OrphanEnds

SpecCalls == CallInit /\ [][CallNext]_vars

\* C19: every Blender process started under a timeout is killed and reaped
\* when the timeout expires: no child is still running when the call
\* reports the failure.
C19_TimedOutChildReaped ==
    \A k \in 1..Len(callLog) :
        callLog[k].outcome = "timeout" =>
            /\ callLog[k].success = FALSE
            /\ callLog[k].child = "killed"


\* ------------------------------------------------------------------------
\* SpecRoot: main of the one-file script starter_pack_layout.py, with the
\* layout arguments at their defaults
\* ------------------------------------------------------------------------
MaxRootAcc == 4

\* defaults of parse_args (lines 22-30)
BASE_W == RInt(130)
BASE_H == RInt(190)
BASE_TH == RInt(5)
TEXT_H == RInt(50)
FIG_W == RInt(70)
FIG_H == RInt(140)
ROOT_GAP == RInt(10)
ACC_SIZE == RInt(30)
DefaultAccCount == 4

USABLE_H == RSub(BASE_H, TEXT_H)
FIG_X == RNeg(RSub(RHalf(BASE_W), RHalf(FIG_W)))
FIG_Y == RSub(RAdd(RSub(RSub(RHalf(BASE_H), TEXT_H), USABLE_H), RHalf(USABLE_H)), RHalf(FIG_H))
ACC_X == RAdd(RAdd(RAdd(FIG_X, RHalf(FIG_W)), ROOT_GAP), RHalf(ACC_SIZE))

IntMin(a, b) == IF a < b THEN a ELSE b
IntMax(a, b) == IF a < b THEN b ELSE a

\* ACC_COUNT = max(0, min(args.acc_count, len(args.accessories)))
ACC_COUNT(a) == IntMax(0, IntMin(a.acc_count, Len(a.accessories)))

\* spacing and acc_centers[k] (k 0-based)
RootSpacing(a) == RDiv(USABLE_H, RInt(IntMax(1, ACC_COUNT(a))))
acc_centers(a, k) ==
    RSub(RSub(RAdd(FIG_Y, RHalf(FIG_H)), RHalf(ACC_SIZE)), RMul(RInt(k), RootSpacing(a)))

\* import_model: the largest mesh the importer added, None when it added none
root_import_model(file, src) ==
    IF file.kind = "mesh" THEN MkObj(src, file.loc, file.lo, file.hi) ELSE None

\* transform_apply(location, rotation, scale)
apply_all_transforms(o) == MkObj(o.src, VZero, world_aabb(o).mn, world_aabb(o).mx)

center_xy_on_origin(o) ==
    LET c == VMid(world_aabb(o).mn, world_aabb(o).mx)
    IN  [o EXCEPT !.loc.x = RSub(o.loc.x, c.x), !.loc.y = RSub(o.loc.y, c.y)]

uniform_fit_wh(o, target_w, target_h) ==
    LET d == world_dims(o)
    IN  IF RLe(d.x, Zero) \/ RLe(d.y, Zero) THEN o
        ELSE ScaleBy(o, RMin(RDiv(target_w, d.x), RDiv(target_h, d.y)))

\* lines 244-250 and 260-266: what main does to an imported object
\* one call on the object the calls before it left: the record of the call
\* is added to the run
RootThen(run, step, Call(_)) ==
    Append(run, [step |-> step, on |-> run[Len(run)].out, out |-> Call(run[Len(run)].out)])

RootImported(o) == << [step |-> "import", on |-> o, out |-> o] >>

RootOrient(o) == try_orient_longest_X_second_Y(o).obj

\* variant: the orientation search runs on the object as imported
RootPipeline_OrientFirst(o, target_w, target_h, loc) ==
    RootThen(RootThen(RootThen(RootThen(RootThen(RootThen(RootThen(RootImported(o),
        "orient", RootOrient),
        "bake", apply_all_transforms),
        "center", center_xy_on_origin),
        "rest", rest_on_z0),
        "fit", LAMBDA x : uniform_fit_wh(x, target_w, target_h)),
        "place", LAMBDA x : [x EXCEPT !.loc = loc]),
        "bake", apply_all_transforms)

\* lines 242-250 and 259-266: the calls made on one imported object, each
\* with the object it is given and the object it leaves
RootPipeline(o, target_w, target_h, loc) ==
    RootThen(RootThen(RootThen(RootThen(RootThen(RootThen(RootThen(RootImported(o),
        "bake", apply_all_transforms),
        "orient", RootOrient),
        "center", center_xy_on_origin),
        "rest", rest_on_z0),
        "fit", LAMBDA x : uniform_fit_wh(x, target_w, target_h)),
        "place", LAMBDA x : [x EXCEPT !.loc = loc]),
        "bake", apply_all_transforms)

\* the object as the last call leaves it
RootResult(run) == run[Len(run)].out

\* what the history keeps of a run: the step and the object it was given
RootStepsOf(asset, run) ==
    [k \in 1..Len(run) |-> [asset |-> asset, step |-> run[k].step, on |-> run[k].on]]

RootFigureFiles == { Missing, Empty, Mesh(IVec(1, 0, 0), IVec(0, 0, 0), IVec(1, 1, 3)) }
RootAccessoryFiles ==
    { Missing,
      Mesh(VZero, IVec(0, 0, 0), IVec(2, 1, 1)),
      Mesh(IVec(0, 3, 0), IVec(1, 1, 1), IVec(2, 2, 4)) }

RootInit ==
    /\ FitIdle /\ PlanIdle /\ MainIdle /\ ProcIdle /\ GenIdle
    /\ SnapIdle /\ OrientIdle /\ CallIdle /\ GroupIdle
    /\ \E f \in RootFigureFiles,
          a \in UNION { [1..n -> RootAccessoryFiles] : n \in 0..MaxRootAcc },
          c \in {DefaultAccCount, 2} :
        rootArgs = [figure |-> f, accessories |-> a, acc_count |-> c]
    /\ rootPc = "setup"
    /\ rootFig = None /\ rootI = 0 /\ rootAccObjs = << >> /\ rootPlaced = << >>
    /\ rootTrace = << >>

NotRoot == << fitVars, planVars, mainVars, procVars, genVars, snapVars, orVars, callVars,
             grpVars >>

\* lines 204-237: the scene, the constants, the base and the two texts
RootSetup ==
    /\ rootPc = "setup"
    /\ rootPc' = "figure"
    /\ UNCHANGED << rootArgs, rootFig, rootI, rootAccObjs, rootPlaced, rootTrace, NotRoot >>

\* lines 240-250
RootFigure ==
    /\ rootPc = "figure"
    /\ LET got == IF rootArgs.figure.kind = "missing" THEN None
                  ELSE root_import_model(rootArgs.figure, -1)
       IN  IF got = None
           THEN UNCHANGED << rootFig, rootTrace >>
           ELSE \E run \in { RootPipeline(got, FIG_W, FIG_H,
                                           Vec(FIG_X, RAdd(FIG_Y, RHalf(FIG_H)), RHalf(BASE_TH))) } :
                    /\ rootFig' = RootResult(run)
                    /\ rootTrace' = rootTrace \o RootStepsOf(Figure, run)
    /\ rootPc' = "accessories"
    /\ UNCHANGED << rootArgs, rootI, rootAccObjs, rootPlaced, NotRoot >>

\* lines 254-267: one pass of the loop, or its end
RootAccessory ==
    /\ rootPc = "accessories"
    /\ IF rootI >= ACC_COUNT(rootArgs)
       THEN /\ rootPc' = "collect"
            /\ UNCHANGED << rootI, rootAccObjs, rootTrace >>
       ELSE LET path == rootArgs.accessories[rootI + 1]
                got == IF path.kind = "missing" THEN None
                       ELSE root_import_model(path, rootI + 1)
            IN  /\ IF got = None
                   THEN UNCHANGED << rootAccObjs, rootTrace >>
                   ELSE \E run \in { RootPipeline(got, ACC_SIZE, ACC_SIZE,
                                          Vec(ACC_X, acc_centers(rootArgs, rootI), RHalf(BASE_TH))) } :
                            /\ rootAccObjs' = Append(rootAccObjs, RootResult(run))
                            /\ rootTrace' = rootTrace \o RootStepsOf(Accessory(rootI + 1), run)
                /\ rootI' = rootI + 1
                /\ UNCHANGED rootPc
    /\ UNCHANGED << rootArgs, rootFig, rootPlaced, NotRoot >>

\* lines 270-282
RootItem(o, role) == [name |-> o.src, role |-> role, aabb |-> world_aabb(o)]

RootCollect ==
    /\ rootPc = "collect"
    /\ rootPlaced' = (IF rootFig # None THEN << RootItem(rootFig, "figure") >> ELSE << >>)
                     \o [k \in 1..Len(rootAccObjs) |-> RootItem(rootAccObjs[k], "accessory")]
    /\ rootPc' = "save"
    /\ UNCHANGED << rootArgs, rootFig, rootI, rootAccObjs, rootTrace, NotRoot >>

\* lines 293-304: the .blend, the STLs and the layout file are written
RootSave ==
    /\ rootPc = "save"
    /\ rootPc' = "done"
    /\ UNCHANGED << rootArgs, rootFig, rootI, rootAccObjs, rootPlaced, rootTrace, NotRoot >>

RootNext == RootSetup \/ RootFigure \/ RootAccessory \/ RootCollect \/ RootSave

SpecRoot == RootInit /\ [][RootNext]_vars

\* C21: at most 3 accessories are ever placed in a job, whatever the number
\* of accessory paths given: the paths beyond the third are never imported.
C21_AtMostThreeAccessories ==
    /\ Len(rootAccObjs) <= 3
    /\ \A k \in 1..Len(rootTrace) : rootTrace[k].asset[2] <= 3

\* matrix_world is the identity: nothing is left to bake
IsBaked(o) == o.loc = VZero /\ o.scale = VOne

OrientSteps(asset) ==
    { k \in 1..Len(rootTrace) : rootTrace[k].asset = asset /\ rootTrace[k].step = "orient" }

MaxGroup == 2

GrpTitles ==
    { [make_text(Zero, Zero, RInt(4), RInt(h), One) EXCEPT !.loc = Vec(RInt(x), RInt(y), Zero)] :
        h \in 1..MaxGroup, x \in 0..1, y \in 1..MaxGroup }

GrpSubs ==
    { [make_text(Zero, Zero, Two, One, R(1, 2)) EXCEPT !.loc = Vec(Zero, RInt(-y), RInt(z))] :
        y \in 0..MaxGroup, z \in 0..1 }

GrpCard == create_rounded_card(RInt(20), RInt(20), RInt(3))

GrpInit ==
    /\ FitIdle /\ PlanIdle /\ MainIdle /\ ProcIdle /\ GenIdle
    /\ SnapIdle /\ OrientIdle /\ CallIdle /\ RootIdle
    /\ \E a \in GrpTitles, b \in GrpSubs, th \in {Two, RInt(6)}, lift \in {Zero, R(1, 5)} :
        grpIn = [title |-> a, sub |-> b, target_height |-> th,
                 slot_bottom_y |-> RInt(5), slot_top_y |-> RInt(9), lift |-> lift]
    /\ grpPc = "made"
    /\ grpPivot = None
    /\ grpBefore = None

NotGroup == << fitVars, planVars, mainVars, procVars, genVars, snapVars, orVars, callVars,
              rootVars >>

GrpGroup ==
    /\ grpPc = "made"
    /\ grpPivot' = group_under_empty(grpIn.title, grpIn.sub)
    /\ grpBefore' = grpPivot
    /\ grpPc' = "grouped"
    /\ UNCHANGED << grpIn, NotGroup >>

GrpScale ==
    /\ grpPc = "grouped"
    /\ grpPivot' = scale_group_y_to_height(grpPivot, grpIn.title, grpIn.sub, grpIn.target_height,
                                           grpIn.slot_bottom_y, grpIn.slot_top_y)
    /\ grpBefore' = grpPivot
    /\ grpPc' = "scaled"
    /\ UNCHANGED << grpIn, NotGroup >>

GrpLift ==
    /\ grpPc = "scaled"
    /\ grpPivot' = lift_group_to_card_top(grpPivot, grpIn.title, grpIn.sub, GrpCard, grpIn.lift)
    /\ grpBefore' = grpPivot
    /\ grpPc' = "lifted"
    /\ UNCHANGED << grpIn, NotGroup >>

GrpNext == GrpGroup \/ GrpScale \/ GrpLift

SpecGroup == GrpInit /\ [][GrpNext]_vars

\* a child's box after the pivot went from g1 to g2: the box before, taken
\* relative to the old pivot, scaled by the ratio and put at the new pivot
MovedWithPivot(g1, g2, o) ==
    LET r == RDiv(g2.scale, g1.scale)
        Through(p) == VAdd(g2.loc, VScale(VSub(p, g1.loc), r))
    IN  /\ child_aabb(g2, o).mn = Through(child_aabb(g1, o).mn)
        /\ child_aabb(g2, o).mx = Through(child_aabb(g1, o).mx)

\* C28: group_under_empty creates the pivot at the union-AABB centre of the
\* two text objects and re-parents them without moving them (each child's
\* world AABB is the same before and after grouping); afterwards scaling or
\* translating the pivot alone moves both children in lockstep.
C28_GroupKeepsChildren ==
    /\ grpPc = "grouped" =>
        /\ grpPivot.loc = union_center(NoGroup, grpIn.title, grpIn.sub)
        /\ grpPivot.scale = One
        /\ child_aabb(grpPivot, grpIn.title) = world_aabb(grpIn.title)
        /\ child_aabb(grpPivot, grpIn.sub) = world_aabb(grpIn.sub)
    /\ grpPc \in {"scaled", "lifted"} =>
        /\ MovedWithPivot(grpBefore, grpPivot, grpIn.title)
        /\ MovedWithPivot(grpBefore, grpPivot, grpIn.sub)
        /\ union_aabb(grpPivot, grpIn.title, grpIn.sub).mn
             = ThroughGroup(grpPivot, union_aabb(NoGroup, grpIn.title, grpIn.sub).mn)

\* two texts grouped about a centre off the origin, scaled to the slot
\* height 4 and lifted by 1/5 above the card: both children have moved
C28_Witness ==
    /\ grpPc = "lifted"
    /\ grpPivot.c0 # VZero /\ grpPivot.c0.x # Zero /\ grpPivot.c0.z # Zero
    /\ grpPivot.scale # One
    /\ grpIn.lift = R(1, 5)
    /\ grpPivot.loc.z # grpBefore.loc.z
    /\ child_aabb(grpPivot, grpIn.title) # world_aabb(grpIn.title)
    /\ child_aabb(grpPivot, grpIn.sub) # world_aabb(grpIn.sub)
    /\ YExtent(union_aabb(grpPivot, grpIn.title, grpIn.sub)) = RInt(4)

====
